---- MODULE Spec2Model ----
(***************************************************************************)
(* Model of the Instagram ingestion pipeline of zervalsz/IG_data_Project:  *)
(*   collectors/instagram/fetcher.py   _http_get, _save_raw,               *)
(*                                     fetch_and_store_paged               *)
(*   collectors/instagram/adapter.py   extract_posts, normalize_snapshot   *)
(*   backend/generators/instagram_network.py                               *)
(*                                     cosine_similarity, network builder  *)
(*                                                                         *)
(* One specification per component; all share the variables below, and a   *)
(* component that a specification does not run stays in its idle state.    *)
(*   Spec              fetch_and_store_paged (with _http_get inside)       *)
(*   SpecHttp          _http_get alone, max_retries drawn from a range     *)
(*   SpecSave          _save_raw as the fetcher calls it, over time        *)
(*   SpecNormalize     normalize_snapshot over a growing record group      *)
(*   SpecNetwork       InstagramNetworkGenerator.generate                  *)
(***************************************************************************)
EXTENDS Integers, Sequences, FiniteSets, TLC

VARIABLES
    \* ---- fetch_and_store_paged ----
    pc,            \* position in fetch_and_store_paged
    args,          \* its arguments
    user_id,       \* _extract_user_id(user_info); 0 is None
    p,             \* loop variable of the current page loop (0-based)
    max_id,        \* continuation token for the next request; 0 is None
    seen_cursors,  \* cursors seen in the current resource session
    params,        \* params of the request in flight
    results,       \* the results dict
    upload,        \* the upload pass: next index into local_files, ids inserted,
                   \* files attempted, failures still to come
    requests,      \* history: every _http_get call made by the page loops
    \* ---- _http_get ----
    http,          \* state of the _http_get call in progress
    http_log,      \* history: what each requests.get of the call did
    \* ---- stores and clock ----
    raw_col,       \* raw_api_responses, in insertion order
    local_fs,      \* outputs/raw/instagram: the files written by _write_local
    now,           \* wall clock, in whole seconds
    save_ret,      \* what the last _save_raw call returned
    \* ---- normalize_snapshot ----
    records,       \* the raw-record group of one identity
    snapshot,      \* result of the last normalize_snapshot call
    prev_snapshot, \* result of the call before it, on the same records
    \* ---- network builder ----
    net,           \* state of InstagramNetworkGenerator.generate
    \* ---- helper functions ----
    call,          \* a helper function called on its own: name, argument, result
    \* ---- run_adapter ----
    grouping,      \* the grouping loop: documents read, groups, the document at hand
    snapshot_col   \* the user_snapshots collection

fetchVars == <<pc, args, user_id, p, max_id, seen_cursors, params, results, upload, requests>>
storeVars == <<raw_col, local_fs, now, save_ret>>
normVars  == <<records, snapshot, prev_snapshot>>
adapterVars == <<grouping, snapshot_col>>

\* No helper function has been called on its own.
NoCall == [fn |-> "", arg |-> <<>>, ret |-> <<>>]
CallIdle == call = NoCall

\* run_adapter has not been started and the snapshot collection is empty.
NoGrouping == [pc |-> "idle", total |-> 0, groups |-> {}, doc |-> <<>>]
AdapterIdle == grouping = NoGrouping /\ snapshot_col = <<>>
vars == <<pc, args, user_id, p, max_id, seen_cursors, params, results, upload,
          requests, http, http_log, raw_col, local_fs, now, save_ret, records, snapshot, prev_snapshot, net, call,
          grouping, snapshot_col>>

(***************************************************************************)
(* Bounds of the model.                                                    *)
(***************************************************************************)
MaxPages == 3
MaxShortPages == 1
NumCursors == 2
MaxFileLimit == 2
MaxRetriesArg == 4
MaxClock == 2
MaxRecords == 3
MaxGroup == 5
MaxProfiles == 3
\* Uploads that fail in one upload pass.
MaxUploadFailures == 1
\* Page numbers a page call is made for.
MaxPageNum == 2
\* Cursor fields set at the top level of a payload.
MaxTopKeys == 2
\* Elements of the edges/items list of a payload.
MaxElements == 2

(***************************************************************************)
(* Program constants.                                                      *)
(***************************************************************************)
DEFAULT_MAX_RETRIES == 3
TIKHUB_COUNT_LIMIT == 50

\* Python's None / a falsy cursor, user id or limit.
NoValue == 0
Cursors == 1..NumCursors
\* Page sizes a caller asks for: the default, the upstream maximum, an oversized one.
CountArgs == {12, 500}

Min(a, b) == IF a <= b THEN a ELSE b

(***************************************************************************)
(* Payloads.  Every payload is a record of one shape, so that payloads of  *)
(* different endpoints can be compared (content hash, duplicate lookup).   *)
(*   kind "page":      a posts/reels page; next_max_id is its explicit     *)
(*                     top-level cursor, last_item_id the id of the last   *)
(*                     element of its items list (0: no such field)        *)
(*   kind "user_info": uid is the id found by _extract_user_id (0: none)   *)
(*   kind "http_error": {'error', 'status', 'body', 'params'}, the document *)
(*                     of a response with an error status: it holds the    *)
(*                     status code and the response body                   *)
(*   kind "error":     {'error', 'params'}, the document of any exception  *)
(*                     out of a page call: the message and the params only *)
(*   kind "upload_error": {'upload_error', 'file'}, the document of a      *)
(*                     failed upload; url, count and status hold the       *)
(*                     endpoint, page and timestamp of the file's name     *)
(***************************************************************************)
Payload(kind, url, cursor, item, status, count, mid, uid) ==
    [kind |-> kind, url |-> url, next_max_id |-> cursor, last_item_id |-> item,
     status |-> status, count |-> count, max_id |-> mid, uid |-> uid]

NoPayload == Payload("", "", 0, 0, 0, 0, 0, 0)
PagePayload(c, i) == Payload("page", "", c, i, 0, 0, 0, 0)
UserInfoPayload(uid) == Payload("user_info", "", 0, 0, 0, 0, 0, uid)
\* The pages the upstream answers with: an explicit top-level cursor, or none.
PagePayloads == {PagePayload(c, NoValue) : c \in {NoValue} \cup Cursors}

\* _extract_next_cursor: the first truthy top-level cursor field.
ExtractNextCursor(d) == d.next_max_id

\* _find_candidate_max_id: _extract_next_cursor first, then the id of the last
\* element of an items list.
FindCandidateMaxId(d) ==
    IF ExtractNextCursor(d) # NoValue THEN ExtractNextCursor(d) ELSE d.last_item_id

\* next_cursor = _extract_next_cursor(data) or _find_candidate_max_id(data)
NextCursor(d) ==
    IF ExtractNextCursor(d) # NoValue THEN ExtractNextCursor(d) ELSE FindCandidateMaxId(d)

\* _extract_user_id(user_info)
ExtractUserId(d) == d.uid

(***************************************************************************)
(* _http_get                                                               *)
(***************************************************************************)
\* What one requests.get can do: 0 stands for a RequestException, the rest
\* are response status codes.
RequestException == 0
UpstreamStatuses == {200, 404, 429, 500, 503}
\* The statuses the page loops are run against: 5xx stands for every retried status.
PageStatuses == {200, 404, 500}
Retryable(status) == status = 429 \/ (500 <= status /\ status < 600)

\* state: idle, running (inside the loop), returned, raised; attempt: the
\* requests.get calls made; sleeps: the backoff sleeps taken; status, body:
\* the response returned.
HttpIdle ==
    [state |-> "idle", attempt |-> 0, backoff |-> 1, max_retries |-> 0,
     sleeps |-> <<>>, status |-> 0, body |-> NoPayload]

\* Entry of _http_get: last_resp = None, backoff = 1; a loop of zero
\* iterations falls through to `raise RuntimeError`.
HttpBegin(max_retries) ==
    [HttpIdle EXCEPT !.state = IF max_retries = 0 THEN "raised" ELSE "running",
                     !.max_retries = max_retries]

\* The loop of _http_get continues after a retryable outcome unless this
\* was the last attempt.
LastAttempt_off_by_one(attempt, max_retries) == attempt + 1 = max_retries

LastAttempt(attempt, max_retries) == attempt = max_retries

\* One iteration of the loop of _http_get with a backoff that grows by one
\* second instead of doubling.
HttpIteration_linear_backoff(h, status, body) ==
    LET k == h.attempt + 1
        h1 == [h EXCEPT !.attempt = k]
        sleep == [h1 EXCEPT !.sleeps = Append(@, h.backoff), !.backoff = @ + 1]
    IN  IF status = RequestException
        THEN IF LastAttempt(k, h.max_retries)
             THEN [h1 EXCEPT !.state = "raised"]
             ELSE sleep
        ELSE IF Retryable(status)
             THEN IF LastAttempt(k, h.max_retries)
                  THEN [h1 EXCEPT !.state = "returned", !.status = status, !.body = body]
                  ELSE sleep
             ELSE [h1 EXCEPT !.state = "returned", !.status = status, !.body = body]

\* One iteration of the loop of _http_get: the request, then return, raise,
\* or sleep and go on.
HttpIteration(h, status, body) ==
    LET k == h.attempt + 1
        h1 == [h EXCEPT !.attempt = k]
        sleep == [h1 EXCEPT !.sleeps = Append(@, h.backoff), !.backoff = 2 * @]
    IN  IF status = RequestException
        THEN IF LastAttempt(k, h.max_retries)
             THEN [h1 EXCEPT !.state = "raised"]
             ELSE sleep
        ELSE IF Retryable(status)
             THEN IF LastAttempt(k, h.max_retries)
                  THEN [h1 EXCEPT !.state = "returned", !.status = status, !.body = body]
                  ELSE sleep
             ELSE [h1 EXCEPT !.state = "returned", !.status = status, !.body = body]

\* What one requests.get can do: raise a RequestException, or answer with a
\* status and, under status 200, a page payload.
Outcomes(statuses) ==
    {[status |-> RequestException, body |-> NoPayload]}
    \cup {[status |-> st, body |-> NoPayload] : st \in statuses \ {200}}
    \cup {[status |-> 200, body |-> b] : b \in (IF 200 \in statuses THEN PagePayloads ELSE {})}

HttpAttempt ==
    /\ http.state = "running"
    /\ \E o \in Outcomes(UpstreamStatuses) :
          /\ http' = HttpIteration(http, o.status, o.body)
          /\ http_log' = Append(http_log, o.status)
    /\ UNCHANGED <<fetchVars, storeVars, normVars, net, call, adapterVars>>

RECURSIVE HttpGet(_, _)
\* Every way a call of _http_get can end, against an upstream that answers
\* with `statuses`: the loop run to its return or raise.
HttpGet(h, statuses) ==
    IF h.state # "running" THEN {h}
    ELSE UNION {HttpGet(HttpIteration(h, o.status, o.body), statuses) : o \in Outcomes(statuses)}

(***************************************************************************)
(* The raw-record store and _save_raw                                      *)
(***************************************************************************)
\* A file name: its stem, the page number in it and the second it was made.
FileName(stem, page, ts) == [stem |-> stem, page |-> page, ts |-> ts]
NoFile == FileName("", 0, 0)

\* fh of _save_raw: the source_file when one is given, otherwise the sha256
\* of the payload (modelled as the payload: equal content, equal hash).
FileHash(payload, source_file) ==
    IF source_file # NoFile
    THEN [src |-> source_file, sha |-> NoPayload]
    ELSE [src |-> NoFile, sha |-> payload]

\* raw_col.find_one({'platform': 'instagram', 'file_hash': fh}): the position
\* of the first such document, 0 when there is none.
FindByHash(col, fh) ==
    IF \E i \in 1..Len(col) : col[i].file_hash = fh
    THEN CHOOSE i \in 1..Len(col) :
            /\ col[i].file_hash = fh
            /\ \A j \in 1..(i - 1) : col[j].file_hash # fh
    ELSE 0

\* _save_raw against a collection with a unique index on file_hash:
\* insert_one, and on DuplicateKeyError the id of the existing document.
\* A document's id is its position in the collection.
SaveRaw(col, payload, endpoint, uid, source_file, ts) ==
    LET fh == FileHash(payload, source_file)
        doc == [endpoint |-> endpoint, user_id |-> uid, raw |-> payload,
                source_file |-> source_file, file_hash |-> fh, fetched_at |-> ts]
        existing == FindByHash(col, fh)
    IN  IF existing = 0
        THEN [col |-> Append(col, doc), id |-> Len(col) + 1, inserted |-> TRUE]
        ELSE [col |-> col, id |-> existing, inserted |-> FALSE]

\* _write_local: the file <slug>_<endpoint>_page<n>_<YYYYmmdd_HHMMSS>.json;
\* writing a path again replaces the file.
LocalPath(endpoint, page, ts) == FileName(endpoint, page, ts)

WriteLocal(fs, path, payload) ==
    {f \in fs : f.path # path} \cup {[path |-> path, payload |-> payload]}

ReadLocal(fs, path) == (CHOOSE f \in fs : f.path = path).payload

(***************************************************************************)
(* fetch_and_store_paged                                                   *)
(***************************************************************************)
\* The arguments explored: both modes, no file limit or a limit of
\* MaxFileLimit, every page size of CountArgs, and page counts of which at
\* least one is short.
ArgSets ==
    {a \in [store_local_first : BOOLEAN, local_file_limit : {NoValue, MaxFileLimit},
             post_pages : 0..MaxPages, reel_pages : 0..MaxPages, count : CountArgs,
             upload_after_local : {TRUE}, upsert_snapshot : {TRUE}] :
        a.post_pages <= MaxShortPages \/ a.reel_pages <= MaxShortPages}

NoParams == [user_id |-> 0, count |-> 0, max_id |-> 0]

\* The upload pass before it starts: the index of the next entry of
\* local_files, the ids returned so far, the files attempted so far, and
\* the uploads that will still fail.
NoUpload == [i |-> 1, inserted |-> <<>>, attempted |-> <<>>, faults |-> 0]

EmptyResults ==
    [user_info |-> NoPayload, posts_pages |-> <<>>, reels_pages |-> <<>>,
     inserted_ids |-> <<>>, local_files |-> <<>>, snapshot_upserted |-> "unset"]

\* An entry of results['posts_pages'] / results['reels_pages'].
PageEntry(page, inserted_id, next_cursor, local_path) ==
    [page |-> page, inserted_id |-> inserted_id, next_cursor |-> next_cursor,
     local_path |-> local_path, note |-> "", error |-> ""]
ErrorEntry(page, error) ==
    [page |-> page, inserted_id |-> 0, next_cursor |-> 0,
     local_path |-> NoFile, note |-> "", error |-> error]

\* An entry of results['local_files'].
LocalFile(endpoint, path, uid, page) ==
    [endpoint |-> endpoint, local_path |-> path, user_id |-> uid, page |-> page]

Pages(kind) == IF kind = "posts" THEN args.post_pages ELSE args.reel_pages
Endpoint(kind) == IF kind = "posts" THEN "posts_list" ELSE "reels_list"
Stem(kind) == IF kind = "posts" THEN "tikhub_user_posts" ELSE "tikhub_user_reels"
\* The loop was left by `break`.
Broken(kind) == IF kind = "posts" THEN "posts_break" ELSE "reels_break"
PagesKey(kind) == IF kind = "posts" THEN "posts_pages" ELSE "reels_pages"
ErrorEndpoint(kind) == IF kind = "posts" THEN "posts_list_error" ELSE "reels_list_error"

\* Where control goes when a page loop ends: the reels loop after the posts
\* loop, then the upload pass (local-first mode) and the snapshot step.
AfterLoop_skips_reels(kind) ==
    IF args.store_local_first /\ args.upload_after_local THEN "upload"
    ELSE IF args.upsert_snapshot THEN "snapshot"
    ELSE "done"

AfterLoop(kind) ==
    IF kind = "posts" THEN "reels"
    ELSE IF args.store_local_first /\ args.upload_after_local THEN "upload"
    ELSE IF args.upsert_snapshot THEN "snapshot"
    ELSE "done"

\* `if local_file_limit and len(results['local_files']) >= local_file_limit`
LimitReached ==
    args.local_file_limit # 0 /\ Len(results.local_files) >= args.local_file_limit

\* range(post_pages) / range(reel_pages) has another value.
LoopContinues_one_more(i, n) == i <= n

LoopContinues(i, n) == i < n

\* `if next_cursor and next_cursor in seen_cursors`
RepeatedCursor_never(cursor, seen) == FALSE

\* The test taking effect only once two cursors have been seen.
RepeatedCursor_after_second(cursor, seen) ==
    cursor # NoValue /\ cursor \in seen /\ Cardinality(seen) > 1

RepeatedCursor(cursor, seen) == cursor # NoValue /\ cursor \in seen

\* `save` of the fetch_user_info call: the payload goes to the store at
\* once unless store_local_first is set.
SaveDirect_always == TRUE

SaveDirect == ~args.store_local_first

\* fetch_user_info(username, save = not store_local_first): one requests.get,
\* raise_for_status, then the payload is saved or written to a local file.
FetchUserInfo ==
    /\ pc = "start"
    /\ \/ /\ pc' = "raised"
          /\ UNCHANGED <<user_id, results, raw_col, local_fs, save_ret>>
       \/ \E uid \in {NoValue, 1} :
            LET info == UserInfoPayload(uid)
                path == LocalPath("user_info", 0, now)
                saved == SaveRaw(raw_col, info, "user_info", NoValue,
                                 FileName("tikhub_user_info", 0, now), now)
            IN  /\ pc' = "posts"
                /\ user_id' = ExtractUserId(info)
                /\ IF ~SaveDirect
                   THEN /\ local_fs' = WriteLocal(local_fs, path, info)
                        /\ results' = [results EXCEPT
                              !.user_info = info,
                              !.local_files = Append(@, LocalFile("user_info", path, NoValue, 0))]
                        /\ UNCHANGED <<raw_col, save_ret>>
                   ELSE /\ raw_col' = saved.col
                        /\ save_ret' = saved.id
                        /\ results' = [results EXCEPT !.user_info = info]
                        /\ UNCHANGED local_fs
    /\ UNCHANGED <<args, p, max_id, seen_cursors, params, upload, requests, http, now,
                   http_log, normVars, net, call, adapterVars>>

\* A page loop is left: range() is exhausted, the local file limit is
\* reached, or the iteration before ended in `break`.  Control passes to the
\* code after the loop; the reels loop starts from max_id = None and an
\* empty seen_cursors.
PageLoopExit_keeps_cursor(kind) ==
    /\ \/ pc = kind /\ (~LoopContinues(p, Pages(kind)) \/ LimitReached)
       \/ pc = Broken(kind)
    /\ pc' = AfterLoop(kind)
    /\ p' = 0
    /\ params' = NoParams
    /\ http' = HttpIdle
    /\ UNCHANGED <<max_id, seen_cursors, args, user_id, results, upload, requests, storeVars, http_log, normVars, net, call, adapterVars>>

PageLoopExit(kind) ==
    /\ \/ pc = kind /\ (~LoopContinues(p, Pages(kind)) \/ LimitReached)
       \/ pc = Broken(kind)
    /\ pc' = AfterLoop(kind)
    /\ p' = 0
    /\ max_id' = NoValue
    /\ seen_cursors' = {}
    /\ params' = NoParams
    /\ http' = HttpIdle
    /\ UNCHANGED <<args, user_id, results, upload, requests, storeVars, http_log, normVars, net, call, adapterVars>>

\* The error documents of a failed page call.  An HTTP error status is
\* recorded by the inner handler, which re-raises; every failure is then
\* recorded by the handler around the loop body.
ErrorDocs(kind, h, prm) ==
    LET inner == Payload("http_error", kind, 0, 0, h.status, prm.count, prm.max_id, 0)
        outer == Payload("error", kind, 0, 0, h.status, prm.count, prm.max_id, 0)
    IN  IF h.state = "returned" THEN <<inner, outer>> ELSE <<outer>>

RECURSIVE SaveAll(_, _, _, _)
\* _save_raw(db, doc, endpoint=..., source_file=None) for each document in turn.
SaveAll(col, docs, endpoint, ts) ==
    IF docs = <<>> THEN col
    ELSE SaveAll(SaveRaw(col, Head(docs), endpoint, user_id, NoFile, ts).col,
                 Tail(docs), endpoint, ts)

RECURSIVE WriteAll(_, _, _)
WriteAll(fs, path, docs) ==
    IF docs = <<>> THEN fs ELSE WriteAll(WriteLocal(fs, path, Head(docs)), path, Tail(docs))

\* The rest of a loop iteration when the page call failed (a status >= 400,
\* or an exception out of _http_get): error documents, an error entry, break.
PageFailed(kind, h, prm) ==
    LET endpoint == ErrorEndpoint(kind)
        docs == ErrorDocs(kind, h, prm)
        path == LocalPath(endpoint, p + 1, now)
        files == [i \in 1..Len(docs) |-> LocalFile(endpoint, path, user_id, 0)]
    IN  /\ IF args.store_local_first
           THEN /\ local_fs' = WriteAll(local_fs, path, docs)
                /\ results' = [results EXCEPT
                      ![PagesKey(kind)] = Append(@, ErrorEntry(p + 1, "error")),
                      !.local_files = @ \o files]
                /\ UNCHANGED <<raw_col, save_ret>>
           ELSE /\ raw_col' = SaveAll(raw_col, docs, endpoint, now)
                /\ results' = [results EXCEPT
                      ![PagesKey(kind)] = Append(@, ErrorEntry(p + 1, "error"))]
                /\ UNCHANGED <<local_fs, save_ret>>
        /\ pc' = Broken(kind)
        /\ UNCHANGED <<p, max_id, seen_cursors>>

\* The rest of a loop iteration when the page call succeeded: the local
\* copy, the record (or the staged file), the page entry, the cursor.
PageSucceeded(kind, h) ==
    LET data == h.body
        path == LocalPath(Endpoint(kind), p + 1, now)
        saved == SaveRaw(raw_col, data, Endpoint(kind), user_id,
                         FileName(Stem(kind), p + 1, now), now)
        next_cursor == NextCursor(data)
        entry == PageEntry(p + 1, IF args.store_local_first THEN 0 ELSE saved.id,
                           next_cursor, path)
        repeated == RepeatedCursor(next_cursor, seen_cursors)
        noted == IF repeated THEN [entry EXCEPT !.note = "repeated_cursor_stopped"] ELSE entry
    IN  /\ local_fs' = WriteLocal(local_fs, path, data)
        /\ IF args.store_local_first
           THEN /\ results' = [results EXCEPT
                      ![PagesKey(kind)] = Append(@, noted),
                      !.local_files = Append(@, LocalFile(Endpoint(kind), path, user_id, p + 1))]
                /\ UNCHANGED <<raw_col, save_ret>>
           ELSE /\ raw_col' = saved.col
                /\ save_ret' = saved.id
                /\ results' = [results EXCEPT ![PagesKey(kind)] = Append(@, noted)]
        /\ IF repeated \/ next_cursor = NoValue
           THEN /\ pc' = Broken(kind)
                /\ UNCHANGED <<p, max_id, seen_cursors>>
           ELSE /\ pc' = kind
                /\ p' = p + 1
                /\ max_id' = next_cursor
                /\ seen_cursors' = seen_cursors \cup {next_cursor}

\* Every way `_http_get(url, headers=headers, params=params, timeout=60)`
\* can end for a page call: max_retries is left at its default.
PageCallResults == HttpGet(HttpBegin(DEFAULT_MAX_RETRIES), PageStatuses)

\* One iteration of a page loop: the limit check, the params, the call of
\* _http_get, and the handling of what it returned or raised.
PageIteration(kind) ==
    /\ pc = kind
    /\ LoopContinues(p, Pages(kind))
    /\ ~LimitReached
    /\ params' = [user_id |-> user_id, count |-> args.count, max_id |-> max_id]
    /\ requests' = Append(requests, [kind |-> kind, page |-> p + 1, user_id |-> user_id,
                                     count |-> args.count, max_id |-> max_id])
    /\ \E h \in PageCallResults :
          /\ http' = h
          /\ IF h.state = "returned" /\ h.status < 400
             THEN PageSucceeded(kind, h)
             ELSE PageFailed(kind, h, params')
    /\ UNCHANGED <<args, user_id, upload, now, http_log, normVars, net, call, adapterVars>>

PostsPage == PageIteration("posts")
PostsLoopExit == PageLoopExit("posts")
ReelsPage == PageIteration("reels")
ReelsLoopExit == PageLoopExit("reels")

\* f"{endpoint}_upload_error"
UploadErrorEndpoint(endpoint) ==
    CASE endpoint = "user_info" -> "user_info_upload_error"
      [] endpoint = "posts_list" -> "posts_list_upload_error"
      [] endpoint = "reels_list" -> "reels_list_upload_error"
      [] endpoint = "posts_list_error" -> "posts_list_error_upload_error"
      [] endpoint = "reels_list_error" -> "reels_list_error_upload_error"
      [] OTHER -> "unknown_upload_error"

\* {'upload_error': str(e), 'file': p}
UploadErrorDoc(path) == Payload("upload_error", path.stem, 0, 0, path.ts, path.page, 0, 0)

\* How the body of the `try` can go for one file: it runs through; reading
\* the file raises and the upload_error document is saved; or _save_raw
\* raises and so does the _save_raw of the upload_error document.
UploadOutcomes == {"ok", "unreadable", "store_down"}

\* `for lf in results['local_files']` takes the next entry whatever the
\* body did: the except branch ends the iteration, not the loop.
UploadNext_stops_on_failure(i, outcome) ==
    IF outcome = "ok" THEN i + 1 ELSE Len(results.local_files) + 1

UploadNext(i, outcome) == i + 1

\* One iteration of the upload pass: read the staged file and _save_raw it
\* under its base name; an exception is logged as an upload_error document.
\* upload.faults is how many more uploads the disk and the store will fail.
UploadFile ==
    /\ pc = "upload"
    /\ upload.i <= Len(results.local_files)
    /\ \E outcome \in UploadOutcomes :
          LET lf == results.local_files[upload.i]
              payload == ReadLocal(local_fs, lf.local_path)
              saved == SaveRaw(raw_col, payload, lf.endpoint, lf.user_id, lf.local_path, now)
              logged == SaveRaw(raw_col, UploadErrorDoc(lf.local_path),
                                UploadErrorEndpoint(lf.endpoint), lf.user_id, NoFile, now)
              tried == [upload EXCEPT !.i = UploadNext(upload.i, outcome),
                                      !.attempted = Append(@, lf.local_path)]
          IN  /\ outcome # "ok" => upload.faults > 0
              /\ CASE outcome = "ok" ->
                        /\ raw_col' = saved.col
                        /\ save_ret' = saved.id
                        /\ upload' = [tried EXCEPT !.inserted = Append(@, saved.id)]
                   [] outcome = "unreadable" ->
                        /\ raw_col' = logged.col
                        /\ save_ret' = logged.id
                        /\ upload' = [tried EXCEPT !.faults = @ - 1]
                   [] outcome = "store_down" ->
                        /\ upload' = [tried EXCEPT !.faults = @ - 1]
                        /\ UNCHANGED <<raw_col, save_ret>>
    /\ UNCHANGED <<pc, args, user_id, p, max_id, seen_cursors, params, results, requests,
                   http, local_fs, now, http_log, normVars, net, call, adapterVars>>

\* End of the upload pass: results['inserted_ids'] = inserted.
UploadDone ==
    /\ pc = "upload"
    /\ upload.i > Len(results.local_files)
    /\ results' = [results EXCEPT !.inserted_ids = upload.inserted]
    /\ pc' = IF args.upsert_snapshot THEN "snapshot" ELSE "done"
    /\ UNCHANGED <<args, user_id, p, max_id, seen_cursors, params, upload, requests,
                   http, storeVars, http_log, normVars, net, call, adapterVars>>

\* The snapshot step: a snapshot is upserted when the store holds raw
\* documents of the username.
UpsertSnapshot ==
    /\ pc = "snapshot"
    /\ results' = [results EXCEPT !.snapshot_upserted =
                      IF Len(raw_col) > 0 THEN "true" ELSE "false"]
    /\ pc' = "done"
    /\ UNCHANGED <<args, user_id, p, max_id, seen_cursors, params, upload, requests,
                   http, storeVars, http_log, normVars, net, call, adapterVars>>

(***************************************************************************)
(* adapter.py: extract_posts, normalize_snapshot                           *)
(***************************************************************************)
\* A key that a dict does not have.  "" is a key that is present and falsy.
Missing == "<missing>"
Truthy(v) == v # Missing /\ v # ""

\* The identity-info keys followed through the merge.
InfoFields == {"username", "bio"}
Info(username, bio) == [username |-> username, bio |-> bio]
NoInfo == Info(Missing, Missing)

\* A content item: a dict with an id, or the single post built from a
\* record that carries a caption (no id then: 0).
Post(id, caption) == [id |-> id, caption |-> caption]

\* A raw payload as the adapter reads it: raw['user'] (a dict, when present),
\* the top-level info keys, raw['data'] (a dict, when present) with its info
\* keys and its `items` list, the top-level `items` list, raw['caption'].
Raw(user_present, user, top, data_present, data, items, data_items, caption) ==
    [user_present |-> user_present, user |-> user, top |-> top,
     data_present |-> data_present, data |-> data, items |-> items,
     data_items |-> data_items, caption |-> caption]

RawRecord(endpoint, raw) == [endpoint |-> endpoint, raw |-> raw]

\* The raw records a group is made of: a profile payload with a nested user
\* object, a profile payload with top-level and data-wrapped fields, a page
\* with one item, a page with two items under `data`, and a feed payload
\* that holds both a user object and a caption.
RecordPool ==
    { RawRecord("user_info",
                Raw(TRUE, Info("a", Missing), Info(Missing, "x"), FALSE, NoInfo,
                    <<>>, <<>>, Missing)),
      RawRecord("user_info",
                Raw(FALSE, NoInfo, Info("b", Missing), TRUE, Info(Missing, ""),
                    <<>>, <<>>, Missing)),
      RawRecord("posts_list",
                Raw(FALSE, NoInfo, NoInfo, FALSE, NoInfo,
                    <<Post(1, Missing)>>, <<>>, Missing)),
      RawRecord("posts_list",
                Raw(FALSE, NoInfo, NoInfo, TRUE, NoInfo,
                    <<>>, <<Post(2, Missing), Post(1, Missing)>>, Missing)),
      RawRecord("posts_list",
                Raw(TRUE, Info("b", "y"), NoInfo, FALSE, NoInfo,
                    <<>>, <<>>, "hello")) }

\* extract_posts: the first non-empty candidate list at top level, then the
\* first under raw['data'], then the record itself as a single post when it
\* has a caption.
ExtractPosts(raw) ==
    IF raw.items # <<>> THEN raw.items
    ELSE IF raw.data_present /\ raw.data_items # <<>> THEN raw.data_items
    ELSE IF raw.caption # Missing THEN <<Post(0, raw.caption)>>
    ELSE <<>>

\* `'user' in raw or endpoint.lower().startswith('user') or endpoint == 'user_info'`
IsUserInfo(rec) == rec.raw.user_present \/ rec.endpoint = "user_info"

\* The user-info branch of the loop body: update() with the nested user
\* object, then setdefault() for truthy top-level fields, then setdefault()
\* for the fields present under raw['data'].
MergeInfo(user_info, raw) ==
    LET updated == [f \in InfoFields |->
                      IF raw.user_present /\ raw.user[f] # Missing
                      THEN raw.user[f] ELSE user_info[f]]
        top == [f \in InfoFields |->
                  IF updated[f] = Missing /\ Truthy(raw.top[f])
                  THEN raw.top[f] ELSE updated[f]]
    IN  [f \in InfoFields |->
            IF top[f] = Missing /\ raw.data_present /\ raw.data[f] # Missing
            THEN raw.data[f] ELSE top[f]]

RECURSIVE NormalizeLoop(_, _)
\* The loop of normalize_snapshot over `recs`, from the accumulators `acc`.
NormalizeLoop(acc, recs) ==
    IF recs = <<>> THEN acc
    ELSE LET rec == Head(recs)
             info == IF IsUserInfo(rec) THEN MergeInfo(acc.user_info, rec.raw)
                     ELSE acc.user_info
         IN  NormalizeLoop([user_info |-> info,
                            posts |-> acc.posts \o ExtractPosts(rec.raw)],
                           Tail(recs))

\* user_info and posts after the loop has run over `recs`.
Merged(recs) == NormalizeLoop([user_info |-> NoInfo, posts |-> <<>>], recs)

\* The snapshot with the clock reading also counted into source_count.
NormalizeSnapshot_clock_leak(username, recs, ts) ==
    LET acc == Merged(recs)
    IN  [called |-> TRUE, platform |-> "instagram", user_id |-> username,
         user_info |-> IF acc.user_info = NoInfo THEN Info(username, Missing)
                       ELSE acc.user_info,
         posts |-> acc.posts, total_posts |-> Len(acc.posts),
         created_at |-> ts, source_count |-> Len(recs) + ts]

\* normalize_snapshot(username, records), called when the clock reads ts.
NormalizeSnapshot(username, recs, ts) ==
    LET acc == Merged(recs)
    IN  [called |-> TRUE, platform |-> "instagram", user_id |-> username,
         user_info |-> IF acc.user_info = NoInfo THEN Info(username, Missing)
                       ELSE acc.user_info,
         posts |-> acc.posts, total_posts |-> Len(acc.posts),
         created_at |-> ts, source_count |-> Len(recs)]

\* No call of normalize_snapshot has been made on the current group.
NoSnapshot ==
    [called |-> FALSE, platform |-> "instagram", user_id |-> "", user_info |-> NoInfo,
     posts |-> <<>>, total_posts |-> 0, created_at |-> 0, source_count |-> 0]

NormIdle == records = <<>> /\ snapshot = NoSnapshot /\ prev_snapshot = NoSnapshot
(***************************************************************************)
(* instagram_network.py: cosine_similarity, InstagramNetworkGenerator      *)
(***************************************************************************)
\* The identities profiles and embeddings are stored under.
UserIds == {"a", "b", "c"}

\* Embedding vectors, with integer components: pairs of cosine 1, 0.8, 0.7,
\* 0.62, 0.1 and 0, a zero vector, and a vector of another dimension.  Every
\* magnitude is a whole number, so the floating-point quotient the code
\* computes is the correctly rounded value of the exact one.
Vectors ==
    {<<1, 0, 0, 0>>, <<0, 1, 0, 0>>, <<7, 1, 1, 7>>, <<4, 0, 3, 0>>, <<0, 0, 0, 0>>, <<1, 0>>}

\* 0.7, as a fraction.
SIMILARITY_THRESHOLD == [num |-> 7, den |-> 10]

RECURSIVE DotProduct(_, _)
\* sum(a * b for a, b in zip(vec1, vec2))
DotProduct(vec1, vec2) ==
    IF vec1 = <<>> \/ vec2 = <<>> THEN 0
    ELSE Head(vec1) * Head(vec2) + DotProduct(Tail(vec1), Tail(vec2))

\* The square of math.sqrt(sum(a * a for a in vec)).
MagnitudeSquared(vec) == DotProduct(vec, vec)

\* A similarity is the number dot / sqrt(sq), kept as the pair (dot, sq).
ZeroSimilarity == [dot |-> 0, sq |-> 1]

\* cosine_similarity dividing by the first vector's magnitude twice.
CosineSimilarity_first_magnitude_twice(vec1, vec2) ==
    IF Len(vec1) # Len(vec2) THEN ZeroSimilarity
    ELSE IF MagnitudeSquared(vec1) = 0 \/ MagnitudeSquared(vec2) = 0 THEN ZeroSimilarity
    ELSE [dot |-> DotProduct(vec1, vec2),
          sq |-> MagnitudeSquared(vec1) * MagnitudeSquared(vec1)]

\* cosine_similarity without its length test: zip() stops at the shorter vector.
CosineSimilarity_without_length_test(vec1, vec2) ==
    IF MagnitudeSquared(vec1) = 0 \/ MagnitudeSquared(vec2) = 0 THEN ZeroSimilarity
    ELSE [dot |-> DotProduct(vec1, vec2),
          sq |-> MagnitudeSquared(vec1) * MagnitudeSquared(vec2)]

\* cosine_similarity(vec1, vec2)
CosineSimilarity(vec1, vec2) ==
    IF Len(vec1) # Len(vec2) THEN ZeroSimilarity
    ELSE IF MagnitudeSquared(vec1) = 0 \/ MagnitudeSquared(vec2) = 0 THEN ZeroSimilarity
    ELSE [dot |-> DotProduct(vec1, vec2),
          sq |-> MagnitudeSquared(vec1) * MagnitudeSquared(vec2)]

\* `similarity >= SIMILARITY_THRESHOLD`, for a positive threshold:
\* dot / sqrt(sq) >= num / den.
AtLeast_strictly_greater(similarity, threshold) ==
    /\ similarity.dot >= 0
    /\ (threshold.den * similarity.dot) * (threshold.den * similarity.dot)
          > threshold.num * threshold.num * similarity.sq

AtLeast(similarity, threshold) ==
    /\ similarity.dot >= 0
    /\ (threshold.den * similarity.dot) * (threshold.den * similarity.dot)
          >= threshold.num * threshold.num * similarity.sq

\* load_instagram_data: the embeddings dict {user_id: embedding}, holding the
\* documents whose user_id and embedding are both truthy.
LoadEmbeddings(user_embeddings) ==
    [u \in {v \in DOMAIN user_embeddings : user_embeddings[v] # <<>>} |-> user_embeddings[u]]

\* build_creator_nodes: one node per profile document, in store order; the
\* node's id is the profile's user_id (the display fields are not modelled).
BuildCreatorNodes(profiles) == [i \in 1..Len(profiles) |-> [id |-> profiles[i].user_id]]

\* `if i >= j: continue`
SkipPair(i, j) == i >= j

RECURSIVE EdgeLoop(_, _, _, _)
\* The nested loops of build_network_edges from iteration k on (k counts the
\* (i, j) iterations, row by row); acc.edges is the edge list, acc.evaluated
\* the pairs of positions that got past the `continue`.
EdgeLoop(creators, embeddings, k, acc) ==
    LET n == Len(creators)
        i == (k \div n) + 1
        j == (k % n) + 1
        id1 == creators[i].id
        id2 == creators[j].id
        seen == [acc EXCEPT !.evaluated = Append(@, <<i, j>>)]
    IN  IF n = 0 \/ k >= n * n THEN acc
        ELSE IF SkipPair(i, j) THEN EdgeLoop(creators, embeddings, k + 1, acc)
        ELSE IF /\ id1 \in DOMAIN embeddings
                /\ id2 \in DOMAIN embeddings
                /\ AtLeast(CosineSimilarity(embeddings[id1], embeddings[id2]),
                           SIMILARITY_THRESHOLD)
             THEN EdgeLoop(creators, embeddings, k + 1,
                           [seen EXCEPT !.edges = Append(@, [source |-> id1, target |-> id2])])
             ELSE EdgeLoop(creators, embeddings, k + 1, seen)

\* build_network_edges(creators, embeddings)
BuildNetworkEdges(creators, embeddings) ==
    EdgeLoop(creators, embeddings, 0, [edges |-> <<>>, evaluated |-> <<>>])

\* The generator and its stores before any run: user_profiles (documents in
\* insertion order), user_embeddings (one document per user_id, <<>> when
\* there is none or its embedding is empty), creator_networks; evaluated and
\* edges_built record what the last run of build_network_edges did.
NetIdle ==
    net = [pc |-> "idle", user_profiles |-> <<>>,
           user_embeddings |-> [u \in UserIds |-> <<>>],
           creator_networks |-> <<>>, evaluated |-> <<>>, edges_built |-> FALSE]

Init ==
    /\ pc = "start"
    /\ args \in ArgSets
    /\ user_id = NoValue
    /\ p = 0
    /\ max_id = NoValue
    /\ seen_cursors = {}
    /\ params = NoParams
    /\ results = EmptyResults
    /\ upload = NoUpload
    /\ requests = <<>>
    /\ http = HttpIdle
    /\ http_log = <<>>
    /\ raw_col = <<>>
    /\ local_fs = {}
    /\ now = 0
    /\ save_ret = 0
    /\ NormIdle
    /\ AdapterIdle
    /\ NetIdle
    /\ CallIdle

Next ==
    \/ FetchUserInfo
    \/ PostsPage
    \/ PostsLoopExit
    \/ ReelsPage
    \/ ReelsLoopExit
    \/ UploadFile
    \/ UploadDone
    \/ UpsertSnapshot

Spec == Init /\ [][Next]_vars

(***************************************************************************)
(* Properties of fetch_and_store_paged                                     *)
(***************************************************************************)
Kinds == {"posts", "reels"}
PageList(kind) == results[PagesKey(kind)]
Requested(kind, page) == \E i \in 1..Len(requests) : requests[i].kind = kind /\ requests[i].page = page
RequestCount(kind) == Cardinality({i \in 1..Len(requests) : requests[i].kind = kind})
Terminated == pc \in {"done", "raised"}

\* Page k of a session succeeded with a cursor that an earlier page of the
\* session had yielded.
EchoesEarlierCursor(kind, k) ==
    /\ PageList(kind)[k].error = ""
    /\ PageList(kind)[k].next_cursor # NoValue
    /\ \E j \in 1..(k - 1) : PageList(kind)[j].next_cursor = PageList(kind)[k].next_cursor

\* C1: within one resource session, a page whose cursor equals the cursor of
\* an earlier page of the session carries the note 'repeated_cursor_stopped',
\* and the next page of that resource is never requested.
C1_RepeatedCursorStops ==
    \A kind \in Kinds : \A k \in 1..Len(PageList(kind)) :
        EchoesEarlierCursor(kind, k) =>
            /\ PageList(kind)[k].note = "repeated_cursor_stopped"
            /\ ~Requested(kind, PageList(kind)[k].page + 1)

\* C1 witness: a finished call that was allowed three posts pages, whose
\* second page echoed the cursor of the first.
C1_Witness ==
    /\ pc = "done"
    /\ args.post_pages >= 3
    /\ Len(results.posts_pages) = 2
    /\ EchoesEarlierCursor("posts", 2)
    /\ results.posts_pages[2].note = "repeated_cursor_stopped"

\* Page k of a session is followed by a request only if it succeeded and
\* yielded a cursor that no earlier page of the session had yielded.
MayContinueAfter(kind, k) ==
    /\ k <= Len(PageList(kind))
    /\ PageList(kind)[k].page = k
    /\ PageList(kind)[k].error = ""
    /\ PageList(kind)[k].next_cursor # NoValue
    /\ \A j \in 1..(k - 1) : PageList(kind)[j].next_cursor # PageList(kind)[k].next_cursor

C2_RequestsBounded ==
    /\ RequestCount("posts") <= args.post_pages
    /\ RequestCount("reels") <= args.reel_pages
    /\ \A i \in 1..Len(requests) :
          requests[i].page > 1 => MayContinueAfter(requests[i].kind, requests[i].page - 1)

\* Steps the call can still take, as a number that every step lowers: the
\* phases in program order, and within a phase the iterations left.
PhaseRank ==
    CASE pc = "start" -> 7
      [] pc = "posts" -> 6
      [] pc = "posts_break" -> 5
      [] pc = "reels" -> 4
      [] pc = "reels_break" -> 3
      [] pc = "upload" -> 2
      [] pc = "snapshot" -> 1
      [] OTHER -> 0
IterationsLeft ==
    CASE pc = "posts" -> args.post_pages - p
      [] pc = "reels" -> args.reel_pages - p
      [] pc = "upload" -> Len(results.local_files) + 1 - upload.i
      [] OTHER -> 0
PhaseWeight == 2 * (args.post_pages + args.reel_pages) + 3
Variant == PhaseRank * PhaseWeight + IterationsLeft

\* C2: the call terminates (every step lowers Variant, which stays a natural
\* number, and a step is possible until the call has ended); it issues at
\* most post_pages posts requests and at most reel_pages reels requests;
\* page k+1 is requested only after page k succeeded with a cursor not seen
\* earlier in the session.
C2_TerminatesWithinPageBudget ==
    /\ [](C2_RequestsBounded /\ Variant >= 0 /\ IterationsLeft < PhaseWeight
            /\ (~Terminated => ENABLED Next))
    /\ [][Variant' < Variant]_vars

\* C2 witness: a finished call that used its whole budget of posts pages.
C2_Witness ==
    /\ pc = "done"
    /\ args.post_pages = MaxPages
    /\ RequestCount("posts") = MaxPages
    /\ RequestCount("reels") = args.reel_pages
    /\ args.reel_pages > 0

\* C10: every posts or reels request of the paginated fetch carries
\* count = min(requested count, 50).
C10_PageSizeCapped ==
    \A i \in 1..Len(requests) : requests[i].count = Min(args.count, TIKHUB_COUNT_LIMIT)

(***************************************************************************)
(* SpecHttp: _http_get alone, for every max_retries of a range             *)
(***************************************************************************)
\* No call of fetch_and_store_paged is in progress.
FetchIdle ==
    /\ pc = "idle"
    /\ args = [store_local_first |-> FALSE, local_file_limit |-> NoValue,
               post_pages |-> 0, reel_pages |-> 0, count |-> 12,
               upload_after_local |-> TRUE, upsert_snapshot |-> TRUE]
    /\ user_id = NoValue
    /\ p = 0
    /\ max_id = NoValue
    /\ seen_cursors = {}
    /\ params = NoParams
    /\ results = EmptyResults
    /\ upload = NoUpload
    /\ requests = <<>>

StoreIdle == raw_col = <<>> /\ local_fs = {} /\ now = 0 /\ save_ret = 0

\* _http_get(url, headers, params, max_retries=3, timeout=30) is called,
\* with the default max_retries or an explicit one.
HttpCall ==
    /\ http.state = "idle"
    /\ \E max_retries \in (0..MaxRetriesArg) \cup {DEFAULT_MAX_RETRIES} :
          http' = HttpBegin(max_retries)
    /\ UNCHANGED <<fetchVars, http_log, storeVars, normVars, net, call, adapterVars>>

InitHttp ==
    /\ FetchIdle
    /\ http = HttpIdle
    /\ http_log = <<>>
    /\ StoreIdle
    /\ NormIdle
    /\ AdapterIdle
    /\ NetIdle
    /\ CallIdle

NextHttp == HttpCall \/ HttpAttempt

SpecHttp == InitHttp /\ [][NextHttp]_vars

\* What attempt k did was a network exception, a 429 or a 5xx.
RetriedOutcome(k) == http_log[k] = RequestException \/ Retryable(http_log[k])

\* C3: _http_get makes at most max_retries attempts; after a network
\* exception, a 429 or a 5xx on attempt k < max_retries it goes on to attempt
\* k+1; it returns the first response that is neither 429 nor 5xx (or the
\* response of the last attempt) and makes no attempt after returning.
C3_RetryUntilFirstFinalResponse ==
    /\ Len(http_log) = http.attempt
    /\ http.attempt <= http.max_retries
    /\ \A k \in 1..(Len(http_log) - 1) : RetriedOutcome(k)
    /\ (http.state \in {"running", "returned", "raised"} /\ http.attempt > 0
            /\ RetriedOutcome(http.attempt) /\ http.attempt < http.max_retries)
          => (http.state = "running" /\ ENABLED HttpAttempt)
    /\ http.state = "returned" =>
          /\ http.attempt > 0
          /\ http.status = http_log[http.attempt]
          /\ http.status # RequestException
          /\ Retryable(http.status) => http.attempt = http.max_retries
          /\ ~ENABLED HttpAttempt
    /\ http.state = "raised" =>
          /\ http.attempt = http.max_retries
          /\ http.attempt > 0 => http_log[http.attempt] = RequestException
          /\ ~ENABLED HttpAttempt

\* C3 witness: with the default of three attempts, two connection errors
\* followed by a success return the successful response.
C3_Witness ==
    /\ http.state = "returned"
    /\ http.max_retries = DEFAULT_MAX_RETRIES
    /\ http_log = <<RequestException, RequestException, 200>>
    /\ http.status = 200
    /\ http.sleeps = <<1, 2>>

(***************************************************************************)
(* SpecSave: _save_raw as fetch_and_store_paged calls it in direct mode,   *)
(* session after session, while the clock advances                         *)
(***************************************************************************)
\* A successful first page of some session is persisted:
\*   sf = f"tikhub_user_{username}_posts_page{p+1}_{int(time.time())}.json"
\*   inserted_id = _save_raw(db, data, endpoint='posts_list', ..., source_file=sf)
SavePage(kind) ==
    /\ Len(raw_col) < MaxRecords
    /\ \E data \in PagePayloads :
          LET saved == SaveRaw(raw_col, data, Endpoint(kind), 1,
                               FileName(Stem(kind), 1, now), now)
          IN  /\ raw_col' = saved.col
              /\ save_ret' = saved.id
    /\ UNCHANGED <<fetchVars, http, http_log, local_fs, now, normVars, net, call, adapterVars>>

SavePostsPage == SavePage("posts")
SaveReelsPage == SavePage("reels")

\* A failed first page of some session is recorded:
\*   _save_raw(db, {'error': str(e), 'params': params}, ..., source_file=None)
SaveErrorDoc ==
    /\ Len(raw_col) < MaxRecords
    /\ \E kind \in Kinds, count \in CountArgs :
          LET doc == Payload("error", kind, 0, 0, 0, count, 0, 0)
              saved == SaveRaw(raw_col, doc, ErrorEndpoint(kind), 1, NoFile, now)
          IN  /\ raw_col' = saved.col
              /\ save_ret' = saved.id
    /\ UNCHANGED <<fetchVars, http, http_log, local_fs, now, normVars, net, call, adapterVars>>

\* A second passes.
Tick ==
    /\ now < MaxClock
    /\ now' = now + 1
    /\ UNCHANGED <<fetchVars, http, http_log, raw_col, local_fs, save_ret, normVars, net, call, adapterVars>>

InitSave ==
    /\ FetchIdle
    /\ http = HttpIdle
    /\ http_log = <<>>
    /\ StoreIdle
    /\ NormIdle
    /\ AdapterIdle
    /\ NetIdle
    /\ CallIdle

NextSave == SavePostsPage \/ SaveReelsPage \/ SaveErrorDoc \/ Tick

SpecSave == InitSave /\ [][NextSave]_vars

\* C4: a byte-identical payload of the same page of the same endpoint,
\* persisted in two sessions at different times, is held by exactly one
\* record of the raw-record store.
C4_OneRecordPerPayload ==
    \A i, j \in 1..Len(raw_col) :
        (/\ raw_col[i].raw = raw_col[j].raw
         /\ raw_col[i].endpoint = raw_col[j].endpoint
         /\ raw_col[i].source_file.page = raw_col[j].source_file.page) => i = j

(***************************************************************************)
(* SpecNormalize: normalize_snapshot over the raw-record group of one      *)
(* identity, as the group grows and the clock advances                     *)
(***************************************************************************)
\* The identity the group was formed under.
Identity == "u"

\* New raw data: a record joins the group (the group is read in insertion
\* order).  The calls made so far were made on another group.
AppendRecord ==
    /\ Len(records) < MaxGroup
    /\ \E rec \in RecordPool : records' = Append(records, rec)
    /\ snapshot' = NoSnapshot
    /\ prev_snapshot' = NoSnapshot
    /\ UNCHANGED <<fetchVars, http, http_log, storeVars, net, call, adapterVars>>

\* snapshots[username] = normalize_snapshot(username, records)
Normalize ==
    /\ records # <<>>
    /\ snapshot' = NormalizeSnapshot(Identity, records, now)
    /\ prev_snapshot' = snapshot
    /\ UNCHANGED <<fetchVars, http, http_log, storeVars, records, net, call, adapterVars>>

InitNormalize ==
    /\ FetchIdle
    /\ http = HttpIdle
    /\ http_log = <<>>
    /\ StoreIdle
    /\ NormIdle
    /\ AdapterIdle
    /\ NetIdle
    /\ CallIdle

NextNormalize == AppendRecord \/ Normalize \/ Tick

SpecNormalize == InitNormalize /\ [][NextNormalize]_vars

\* Two calls have been made on the current group.
CalledTwice == snapshot.called /\ prev_snapshot.called

C6_FirstWriteWins ==
    snapshot.called =>
        \A n \in 1..Len(records) : \A f \in InfoFields :
            LET first == Merged(SubSeq(records, 1, n)).user_info[f]
            IN  first # Missing => snapshot.user_info[f] = first

RECURSIVE ContentItems(_)
\* The items of the records not classified as identity info, in record order.
ContentItems(recs) ==
    IF recs = <<>> THEN <<>>
    ELSE (IF IsUserInfo(Head(recs)) THEN <<>> ELSE ExtractPosts(Head(recs).raw))
         \o ContentItems(Tail(recs))

InfoLike(recs) == {i \in 1..Len(recs) : IsUserInfo(recs[i])}
SingleItemContentLike(recs) ==
    {i \in 1..Len(recs) : ~IsUserInfo(recs[i]) /\ Len(ExtractPosts(recs[i].raw)) = 1}

\* C7: total_posts is the length of the posts list, and a group of two
\* info-like and three single-item content-like records yields exactly the
\* three content items, in discovery order.
C7_ThreeContentItems ==
    snapshot.called =>
        /\ snapshot.total_posts = Len(snapshot.posts)
        /\ (/\ Len(records) = 5
            /\ Cardinality(InfoLike(records)) = 2
            /\ Cardinality(SingleItemContentLike(records)) = 3)
           => (Len(snapshot.posts) = 3 /\ snapshot.posts = ContentItems(records))

(***************************************************************************)
(* SpecNetwork: the profile and embedding stores are filled, then          *)
(* InstagramNetworkGenerator.generate runs                                 *)
(***************************************************************************)
\* UserProfileRepository.create_profile: insert_one of a profile document.
CreateProfile ==
    /\ net.pc = "idle"
    /\ Len(net.user_profiles) < MaxProfiles
    /\ \E u \in UserIds :
          net' = [net EXCEPT !.user_profiles = Append(@, [user_id |-> u])]
    /\ UNCHANGED <<fetchVars, http, http_log, storeVars, normVars, call, adapterVars>>

\* The embedding document of a user is created or replaced.
UpsertEmbedding ==
    /\ net.pc = "idle"
    /\ \E u \in UserIds, vec \in Vectors :
          net' = [net EXCEPT !.user_embeddings[u] = vec]
    /\ UNCHANGED <<fetchVars, http, http_log, storeVars, normVars, call, adapterVars>>

\* generate(): load, return when there is no profile; build the nodes, the
\* edges when there are at least two embeddings, and replace the stored
\* network (delete_many, insert_one).
Generate ==
    /\ net.pc = "idle"
    /\ LET profiles == net.user_profiles
           embeddings == LoadEmbeddings(net.user_embeddings)
           creators == BuildCreatorNodes(profiles)
           build == Cardinality(DOMAIN embeddings) >= 2
           built == IF build THEN BuildNetworkEdges(creators, embeddings)
                    ELSE [edges |-> <<>>, evaluated |-> <<>>]
           doc == [creators |-> creators, edges |-> built.edges,
                   creator_count |-> Len(creators), edge_count |-> Len(built.edges)]
       IN  IF profiles = <<>>
           THEN net' = [net EXCEPT !.pc = "done"]
           ELSE net' = [net EXCEPT !.pc = "done", !.creator_networks = <<doc>>,
                                   !.evaluated = built.evaluated, !.edges_built = build]
    /\ UNCHANGED <<fetchVars, http, http_log, storeVars, normVars, call, adapterVars>>

InitNetwork ==
    /\ FetchIdle
    /\ http = HttpIdle
    /\ http_log = <<>>
    /\ StoreIdle
    /\ NormIdle
    /\ AdapterIdle
    /\ NetIdle
    /\ CallIdle

NextNetwork == CreateProfile \/ UpsertEmbedding \/ Generate

SpecNetwork == InitNetwork /\ [][NextNetwork]_vars

\* C8: no stored network has an edge from an identity to itself, or two
\* edges joining the same unordered pair of identities.
C8_NoSelfEdgeNoParallelEdge ==
    \A d \in 1..Len(net.creator_networks) :
        LET edges == net.creator_networks[d].edges
        IN  /\ \A k \in 1..Len(edges) : edges[k].source # edges[k].target
            /\ \A k, l \in 1..Len(edges) :
                  {edges[k].source, edges[k].target} = {edges[l].source, edges[l].target}
                     => k = l

\* The cosine of the angle between two vectors is at least 7/10; it counts
\* as 0 for vectors of different dimensions and for a zero vector.
CosineAtLeastSevenTenths(v, w) ==
    /\ Len(v) = Len(w)
    /\ DotProduct(v, v) > 0
    /\ DotProduct(w, w) > 0
    /\ DotProduct(v, w) >= 0
    /\ 100 * DotProduct(v, w) * DotProduct(v, w) >= 49 * DotProduct(v, v) * DotProduct(w, w)

Joined(edges, x, y) ==
    \E k \in 1..Len(edges) : {edges[k].source, edges[k].target} = {x, y}

\* C9: in the network built by build_network_edges, two creator nodes that
\* both have an embedding are joined by an edge if and only if their cosine
\* similarity is at least 0.7; nodes of which one has no embedding are not
\* joined; every pair of node positions is evaluated exactly once.
C9_EdgeIffSimilar ==
    net.edges_built =>
        LET creators == net.creator_networks[1].creators
            edges == net.creator_networks[1].edges
            emb == net.user_embeddings
            n == Len(creators)
        IN  /\ \A i, j \in 1..n :
                  i < j =>
                    LET x == creators[i].id
                        y == creators[j].id
                    IN  IF emb[x] # <<>> /\ emb[y] # <<>>
                        THEN Joined(edges, x, y) <=> CosineAtLeastSevenTenths(emb[x], emb[y])
                        ELSE ~Joined(edges, x, y)
            /\ \A i, j \in 1..n :
                  i < j =>
                    Cardinality({k \in 1..Len(net.evaluated) :
                                   net.evaluated[k] \in {<<i, j>>, <<j, i>>}}) = 1
            /\ \A k \in 1..Len(net.evaluated) : net.evaluated[k][1] # net.evaluated[k][2]

\* C9 witness: a built network of three distinct creators, one of them
\* without an embedding, the other two joined at a cosine of exactly 0.7.
C9_Witness ==
    /\ net.edges_built
    /\ Len(net.user_profiles) = 3
    /\ {net.user_profiles[i].user_id : i \in 1..3} = UserIds
    /\ net.user_embeddings["a"] = <<1, 0, 0, 0>>
    /\ net.user_embeddings["b"] = <<7, 1, 1, 7>>
    /\ net.user_embeddings["c"] = <<>>
    /\ Joined(net.creator_networks[1].edges, "a", "b")
    /\ Len(net.creator_networks[1].edges) = 1
    /\ Len(net.evaluated) = 3

(***************************************************************************)
(* SpecSingle: fetch_and_store, the single-page fetch of one identity,     *)
(* with fetch_user_posts and fetch_user_reels inside                       *)
(***************************************************************************)
\* Page sizes a caller asks for: below, at and above the upstream maximum.
SingleCounts == {12, 50, 51, 500}

SingleArgSets ==
    [fetch_posts : BOOLEAN, fetch_reels : BOOLEAN,
     posts_count : SingleCounts, reels_count : SingleCounts]

\* results = {'user_info': None, 'posts': None, 'reels': None, 'inserted_ids': []}
EmptySingleResults ==
    [user_info |-> NoPayload, posts |-> NoPayload, reels |-> NoPayload,
     snapshot_upserted |-> "unset"]

\* `if count > 50: ... count = 50`
CapCount_uncapped(count) == count

CapCount(count) == IF count > TIKHUB_COUNT_LIMIT THEN TIKHUB_COUNT_LIMIT ELSE count

\* fetch_user_info(username, save=True) at the head of fetch_and_store.
SingleFetchUserInfo ==
    /\ pc = "single_start"
    /\ \/ /\ pc' = "raised"
          /\ UNCHANGED <<user_id, results, raw_col, save_ret>>
       \/ \E uid \in {NoValue, 1} :
            LET info == UserInfoPayload(uid)
                saved == SaveRaw(raw_col, info, "user_info", NoValue,
                                 FileName("tikhub_user_info", 0, now), now)
            IN  /\ pc' = "single_posts"
                /\ user_id' = ExtractUserId(info)
                /\ raw_col' = saved.col
                /\ save_ret' = saved.id
                /\ results' = [results EXCEPT !.user_info = info]
    /\ UNCHANGED <<args, p, max_id, seen_cursors, params, upload, requests, http,
                   http_log, local_fs, now, normVars, net, call, adapterVars>>

SingleWanted(kind) == IF kind = "posts" THEN args.fetch_posts ELSE args.fetch_reels
SingleCount(kind) == IF kind = "posts" THEN args.posts_count ELSE args.reels_count
SinglePc(kind) == IF kind = "posts" THEN "single_posts" ELSE "single_reels"
SingleAfter(kind) == IF kind = "posts" THEN "single_reels" ELSE "single_snapshot"

\* `if fetch_posts and user_id:` is false: the resource is passed over.
SingleSkip(kind) ==
    /\ pc = SinglePc(kind)
    /\ ~(SingleWanted(kind) /\ user_id # NoValue)
    /\ pc' = SingleAfter(kind)
    /\ UNCHANGED <<args, user_id, p, max_id, seen_cursors, params, results, upload,
                   requests, http, http_log, storeVars, normVars, net, call, adapterVars>>

\* fetch_user_posts / fetch_user_reels(user_id, username=username,
\* count=..., save=True), called from fetch_and_store: the cap, the request
\* through _http_get, then the error document and RuntimeError, or the local
\* copy and the record.  Neither function nor its caller catches what
\* _http_get or raise_for_status raises.
SingleFetch(kind) ==
    /\ pc = SinglePc(kind)
    /\ SingleWanted(kind) /\ user_id # NoValue
    /\ LET count == CapCount(SingleCount(kind))
       IN  /\ params' = [user_id |-> user_id, count |-> count, max_id |-> NoValue]
           /\ requests' = Append(requests, [kind |-> kind, page |-> 1, user_id |-> user_id,
                                            count |-> count, max_id |-> NoValue])
           /\ \E h \in PageCallResults :
                 /\ http' = h
                 /\ IF h.state = "returned" /\ h.status < 400
                    THEN LET path == LocalPath(Endpoint(kind), 1, now)
                             saved == SaveRaw(raw_col, h.body, Endpoint(kind), user_id,
                                              FileName(Stem(kind), 0, now), now)
                         IN  /\ local_fs' = WriteLocal(local_fs, path, h.body)
                             /\ raw_col' = saved.col
                             /\ save_ret' = saved.id
                             /\ results' = [results EXCEPT ![kind] = h.body]
                             /\ pc' = SingleAfter(kind)
                    ELSE IF h.state = "returned"
                    THEN LET err == Payload("http_error", kind, 0, 0, h.status, count, 0, 0)
                             saved == SaveRaw(raw_col, err, ErrorEndpoint(kind), user_id,
                                              NoFile, now)
                         IN  /\ raw_col' = saved.col
                             /\ save_ret' = saved.id
                             /\ pc' = "raised"
                             /\ UNCHANGED <<local_fs, results>>
                    ELSE /\ pc' = "raised"
                         /\ UNCHANGED <<raw_col, save_ret, local_fs, results>>
    /\ UNCHANGED <<args, user_id, p, max_id, seen_cursors, upload, http_log, now,
                   normVars, net, call, adapterVars>>

SingleSkipPosts == SingleSkip("posts")
SingleSkipReels == SingleSkip("reels")
FetchUserPosts == SingleFetch("posts")
FetchUserReels == SingleFetch("reels")

\* The snapshot step of fetch_and_store, inside its own try/except.
SingleSnapshot ==
    /\ pc = "single_snapshot"
    /\ results' = [results EXCEPT !.snapshot_upserted =
                      IF Len(raw_col) > 0 THEN "true" ELSE "false"]
    /\ pc' = "done"
    /\ UNCHANGED <<args, user_id, p, max_id, seen_cursors, params, upload, requests,
                   http, http_log, storeVars, normVars, net, call, adapterVars>>

InitSingle ==
    /\ pc = "single_start"
    /\ args \in SingleArgSets
    /\ user_id = NoValue
    /\ p = 0
    /\ max_id = NoValue
    /\ seen_cursors = {}
    /\ params = NoParams
    /\ results = EmptySingleResults
    /\ upload = NoUpload
    /\ requests = <<>>
    /\ http = HttpIdle
    /\ http_log = <<>>
    /\ StoreIdle
    /\ NormIdle
    /\ AdapterIdle
    /\ NetIdle
    /\ CallIdle

NextSingle ==
    \/ SingleFetchUserInfo
    \/ SingleSkipPosts
    \/ FetchUserPosts
    \/ SingleSkipReels
    \/ FetchUserReels
    \/ SingleSnapshot

SpecSingle == InitSingle /\ [][NextSingle]_vars

\* C11: every request of fetch_user_posts and fetch_user_reels carries
\* count = min(count argument, 50): above 50 it is sent as 50, at 50 or below
\* it is sent unchanged, and the cap itself raises nothing (a request is
\* made for every wanted resource that is reached).
C11_SinglePageSizeCapped ==
    /\ \A i \in 1..Len(requests) :
          /\ requests[i].count = Min(SingleCount(requests[i].kind), 50)
          /\ SingleCount(requests[i].kind) <= 50 =>
                requests[i].count = SingleCount(requests[i].kind)
    /\ \A kind \in Kinds :
          (pc = SinglePc(kind) /\ SingleWanted(kind) /\ user_id # NoValue)
             => ENABLED SingleFetch(kind)

\* C11 witness: a finished call that asked for 500 posts and 50 reels, and
\* sent 50 and 50.
C11_Witness ==
    /\ pc = "done"
    /\ args.posts_count = 500
    /\ args.reels_count = 50
    /\ Len(requests) = 2
    /\ requests[1].count = 50
    /\ requests[2].count = 50

(***************************************************************************)
(* Properties of the failure handling of fetch_and_store_paged             *)
(***************************************************************************)
\* The page call of the iteration just run returned a 4xx other than 429.
ClientErrorReturned(kind) ==
    /\ pc = Broken(kind)
    /\ http.state = "returned"
    /\ 400 <= http.status /\ http.status < 500
    /\ http.status # 429

\* A document that holds the status code and the body of the failed
\* response to `kind` is in the store, or in a staged local file.
StatusAndBodyKept(kind, status) ==
    \/ \E i \in 1..Len(raw_col) :
          /\ raw_col[i].raw.kind = "http_error"
          /\ raw_col[i].raw.url = kind
          /\ raw_col[i].raw.status = status
    \/ \E f \in local_fs :
          /\ f.payload.kind = "http_error"
          /\ f.payload.url = kind
          /\ f.payload.status = status

\* C12: a 4xx response other than 429 is not retried (it is the response
\* the call returns, and no backoff sleep follows it: the sleeps taken are
\* those of the attempts before it, none when it answered the first
\* attempt), the page is listed as failed, and an error record holding the
\* status code and the response body is persisted.
C12_ClientErrorNotRetriedAndKept ==
    \A kind \in Kinds :
        ClientErrorReturned(kind) =>
            /\ Len(http.sleeps) = http.attempt - 1
            /\ Len(PageList(kind)) > 0
            /\ PageList(kind)[Len(PageList(kind))].error # ""
            /\ StatusAndBodyKept(kind, http.status)

\* A document tagged with `endpoint` is in the store, or in a staged local file.
ErrorRecorded(endpoint) ==
    \/ \E i \in 1..Len(raw_col) : raw_col[i].endpoint = endpoint
    \/ \E f \in local_fs : f.path.stem = endpoint

\* C13: every failed upstream call (the identity-info call, a posts page, a
\* reels page) leaves a record tagged with an `_error` endpoint in the store,
\* or staged locally in local-first mode.
C13_EveryFailureRecorded ==
    /\ pc = "raised" => ErrorRecorded("user_info_error")
    /\ \A kind \in Kinds : \A k \in 1..Len(PageList(kind)) :
          PageList(kind)[k].error # "" => ErrorRecorded(ErrorEndpoint(kind))

(***************************************************************************)
(* SpecInfo: fetch_user_info, call after call, while the clock advances    *)
(***************************************************************************)
\* What the one requests.get of fetch_user_info can do: raise a
\* RequestException, or answer with a status and, under 200, a payload.
InfoOutcomes ==
    {[status |-> RequestException, body |-> NoPayload]}
    \cup {[status |-> st, body |-> NoPayload] : st \in UpstreamStatuses \ {200}}
    \cup {[status |-> 200, body |-> UserInfoPayload(uid)] : uid \in {NoValue, 1}}

\* r.raise_for_status() raises for a status of 400 and above.
RaisesForStatus(status) == status >= 400

\* fetch_user_info(username, save): requests.get, raise_for_status, then the
\* record when save is True.  http keeps how the call went: its single
\* attempt, no sleep, and whether it returned the payload or raised.
InfoCall ==
    /\ http.state = "idle"
    /\ \E save \in BOOLEAN, o \in InfoOutcomes :
          LET failed == o.status = RequestException \/ RaisesForStatus(o.status)
              saved == SaveRaw(raw_col, o.body, "user_info", NoValue,
                               FileName("tikhub_user_info", 0, now), now)
          IN  /\ http_log' = <<o.status>>
              /\ http' = [HttpIdle EXCEPT !.state = IF failed THEN "raised" ELSE "returned",
                                          !.attempt = 1, !.status = o.status, !.body = o.body]
              /\ IF ~failed /\ save /\ Len(raw_col) < MaxRecords
                 THEN raw_col' = saved.col /\ save_ret' = saved.id
                 ELSE UNCHANGED <<raw_col, save_ret>>
    /\ UNCHANGED <<fetchVars, local_fs, now, normVars, net, call, adapterVars>>

\* The call is over; another can be made.
InfoCallOver ==
    /\ http.state \in {"returned", "raised"}
    /\ http' = HttpIdle
    /\ http_log' = <<>>
    /\ UNCHANGED <<fetchVars, storeVars, normVars, net, call, adapterVars>>

InitInfo ==
    /\ FetchIdle
    /\ http = HttpIdle
    /\ http_log = <<>>
    /\ StoreIdle
    /\ NormIdle
    /\ AdapterIdle
    /\ NetIdle
    /\ CallIdle

NextInfo == InfoCall \/ InfoCallOver \/ Tick

SpecInfo == InitInfo /\ [][NextInfo]_vars

\* C14: fetch_user_info is reported as failed after a network error, a 429
\* or a 5xx only when the attempt ceiling has been reached, with a backoff
\* sleep between the attempts.
C14_InfoCallRetried ==
    (/\ http.state = "raised"
     /\ Len(http_log) > 0
     /\ RetriedOutcome(Len(http_log)))
       => (/\ http.attempt = DEFAULT_MAX_RETRIES
           /\ Len(http.sleeps) = DEFAULT_MAX_RETRIES - 1)

(***************************************************************************)
(* Properties of Spec: a failed posts page                                 *)
(***************************************************************************)
PostsFailed ==
    /\ Len(PageList("posts")) > 0
    /\ PageList("posts")[Len(PageList("posts"))].error # ""

\* The step in which a posts page fails.
PostsPageFails == pc = "posts" /\ pc' = "posts_break" /\ PostsFailed'

IsPrefix(s, t) == Len(s) <= Len(t) /\ SubSeq(t, 1, Len(s)) = s

\* C15: when posts page k fails, the records and files of pages 1..k-1 are
\* left as they were (and no later step changes a stored record), the posts
\* list is pages 1..k-1 followed by an error entry for page k, the reels
\* loop is entered next at its first page, and the call does not raise.
C15_PostsFailureIsContained ==
    /\ [][/\ IsPrefix(raw_col, raw_col')
          /\ PostsPageFails =>
                /\ \A f \in local_fs : f \in local_fs'
                /\ results'.posts_pages = Append(results.posts_pages, ErrorEntry(p + 1, "error"))
                /\ \A k \in 1..Len(results.posts_pages) :
                      results.posts_pages[k].page = k /\ results.posts_pages[k].error = ""
          /\ (pc = "posts_break" /\ PostsFailed) => (pc' = "reels" /\ p' = 0)]_vars
    /\ [](PostsFailed =>
            /\ pc # "raised"
            /\ ~Terminated => ENABLED Next
            /\ \A i \in 1..Len(requests) :
                  (requests[i].kind = "reels" /\ (i = 1 \/ requests[i - 1].kind = "posts"))
                     => requests[i].page = 1)

\* Posts page 2 failed after page 1 was stored, the reels loop then fetched
\* its first page, and the call returned.
C15_Witness ==
    /\ PostsFailed
    /\ Len(PageList("posts")) = 2
    /\ \E i \in 1..Len(raw_col) : raw_col[i].endpoint = "posts_list"
    /\ Requested("reels", 1)
    /\ pc = "done"

(***************************************************************************)
(* Properties of SpecSingle: a failed posts fetch                          *)
(***************************************************************************)
\* The posts request of fetch_and_store was made and gave no payload.
SinglePostsFailed ==
    /\ pc # "single_start"
    /\ \E i \in 1..Len(requests) : requests[i].kind = "posts"
    /\ results.posts = NoPayload

\* C16: in fetch_and_store a failed posts fetch does not abort the call:
\* the call does not raise, and it ends with the reels fetch attempted
\* (when asked for) and the snapshot step run.
C16_PostsFailureDoesNotAbort ==
    SinglePostsFailed =>
        /\ pc # "raised"
        /\ pc = "done" =>
              /\ results.snapshot_upserted # "unset"
              /\ args.fetch_reels => \E i \in 1..Len(requests) : requests[i].kind = "reels"

(***************************************************************************)
(* Properties of Spec: the continuation token                              *)
(***************************************************************************)
\* The response to page `page` of a session, as the loop kept it on disk.
ResponseTo(kind, page) == ReadLocal(local_fs, PageList(kind)[page].local_path)

\* C17: in each session the request for page 1 carries no max_id and the
\* request for page k+1 carries the cursor extracted from the response to
\* page k; the reels loop is entered with no max_id and no seen cursor.
C17_CursorThreaded ==
    /\ [](\A i \in 1..Len(requests) :
            LET r == requests[i]
            IN  /\ r.page = 1 => r.max_id = NoValue
                /\ r.page > 1 =>
                      /\ Len(PageList(r.kind)) >= r.page - 1
                      /\ PageList(r.kind)[r.page - 1].error = ""
                      /\ r.max_id # NoValue
                      /\ r.max_id = NextCursor(ResponseTo(r.kind, r.page - 1)))
    /\ [][(pc # "reels" /\ pc' = "reels") => (max_id' = NoValue /\ seen_cursors' = {})]_vars

\* The posts session ended on a page that gave a cursor, and the reels
\* session went on to request its second page.
C17_Witness ==
    /\ Len(PageList("posts")) > 0
    /\ PageList("posts")[Len(PageList("posts"))].next_cursor # NoValue
    /\ \E i \in 1..Len(requests) : requests[i].kind = "reels" /\ requests[i].page = 2

(***************************************************************************)
(* SpecLocalFirst: fetch_and_store_paged(store_local_first=True) with      *)
(* uploads that can fail                                                   *)
(***************************************************************************)
LocalFirstArgSets ==
    {a \in ArgSets : /\ a.store_local_first
                     /\ a.count = 12
                     /\ a.post_pages <= MaxShortPages
                     /\ a.reel_pages <= MaxShortPages}

InitLocalFirst ==
    /\ pc = "start"
    /\ args \in LocalFirstArgSets
    /\ user_id = NoValue
    /\ p = 0
    /\ max_id = NoValue
    /\ seen_cursors = {}
    /\ params = NoParams
    /\ results = EmptyResults
    /\ \E faults \in 0..MaxUploadFailures : upload = [NoUpload EXCEPT !.faults = faults]
    /\ requests = <<>>
    /\ http = HttpIdle
    /\ http_log = <<>>
    /\ StoreIdle
    /\ NormIdle
    /\ AdapterIdle
    /\ NetIdle
    /\ CallIdle

SpecLocalFirst == InitLocalFirst /\ [][Next]_vars

\* The upstream requests of the call are over.
FetchOver == pc \in {"upload", "snapshot", "done"}

\* The payload of stored record i is the content of the local file the
\* record is named after.
FromLocalFile(i) ==
    \E f \in local_fs : f.path = raw_col[i].source_file /\ f.payload = raw_col[i].raw

\* A remote write precedes no upstream request.
NoRemoteWriteWhileFetching ==
    /\ [](raw_col # <<>> => FetchOver)
    /\ [][raw_col # <<>> => requests' = requests]_vars

\* C18 as stated: with store_local_first=True no remote write happens
\* before the last upstream request has completed, and every remote record
\* carries a payload that was first written to a local file.
C18_EveryRemotePayloadFromLocalFile ==
    /\ NoRemoteWriteWhileFetching
    /\ [](\A i \in 1..Len(raw_col) : FromLocalFile(i))

\* C18, amended: with store_local_first=True no remote write happens
\* before the last upstream request has completed, and every remote record
\* other than the upload_error documents of failed uploads carries a
\* payload that was first written to a local file.
C18_RemotePayloadFromLocalFileOrUploadError ==
    /\ NoRemoteWriteWhileFetching
    /\ [](\A i \in 1..Len(raw_col) :
            raw_col[i].raw.kind # "upload_error" => FromLocalFile(i))

\* A page and the log of a failed upload are both in the store.
C18_Witness ==
    /\ pc = "done"
    /\ \E i \in 1..Len(raw_col) : raw_col[i].raw.kind = "upload_error"
    /\ \E i \in 1..Len(raw_col) : raw_col[i].raw.kind = "page"
    /\ Len(requests) >= 2

\* The upload pass is over.
UploadOver == pc \in {"snapshot", "done"}

\* Iterations of the upload pass that ended in the except branch.
UploadsFailed == Len(upload.attempted) - Len(upload.inserted)

Uploaded(path) == \E i \in 1..Len(raw_col) : raw_col[i].source_file = path

\* C19: the upload pass attempts the entries of local_files once each, in
\* staging order, through to the last one whatever fails on the way, and
\* the call does not raise; when no upload fails, the _save_raw calls of the
\* pass (remote writes, of which one on an already stored file name is a
\* no-op) and inserted_ids are as many as the entries of local_files, and
\* the store holds one record per distinct staged file.
C19_UploadPassToleratesFailures ==
    /\ Len(upload.attempted) <= Len(results.local_files)
    /\ \A k \in 1..Len(upload.attempted) :
          upload.attempted[k] = results.local_files[k].local_path
    /\ upload.attempted # <<>> => pc # "raised"
    /\ pc = "upload" => ENABLED Next
    /\ UploadOver =>
          /\ Len(upload.attempted) = Len(results.local_files)
          /\ results.inserted_ids = upload.inserted
          /\ UploadsFailed = 0 =>
                /\ Len(upload.inserted) = Len(results.local_files)
                /\ Len(results.inserted_ids) = Len(results.local_files)
                /\ \A k \in 1..Len(results.local_files) :
                      Uploaded(results.local_files[k].local_path)
                /\ Len(raw_col) =
                      Cardinality({results.local_files[k].local_path :
                                      k \in 1..Len(results.local_files)})

\* The upload of the first of three staged files failed, the third was
\* uploaded all the same, and the call returned.
C19_Witness ==
    /\ pc = "done"
    /\ Len(results.local_files) >= 3
    /\ ~Uploaded(results.local_files[1].local_path)
    /\ Uploaded(results.local_files[3].local_path)

\* C20: with store_local_first=True and local_file_limit = L > 0, local_files
\* never has more than L entries.
C20_StagedFilesWithinLimit ==
    (args.store_local_first /\ args.local_file_limit # NoValue)
       => Len(results.local_files) <= args.local_file_limit

(***************************************************************************)
(* SpecPage: one call of fetch_user_posts / fetch_user_reels, step by step *)
(***************************************************************************)
\* The arguments of the call: the resource, save, count, max_id, page_num.
PageArgSets ==
    [kind : {"posts", "reels"}, save : BOOLEAN, count : SingleCounts,
     max_id : {NoValue, 1}, page_num : 1..MaxPageNum]

\* The order of the statements after the response: the local copy always,
\* then the insert when save is set.
PageStepAfter_local_copy_only_when_saving(step, save) ==
    CASE step = "page_call" -> IF save THEN "page_local" ELSE "done"
      [] step = "page_local" -> IF save THEN "page_save" ELSE "done"
      [] OTHER -> "done"

PageStepAfter(step, save) ==
    CASE step = "page_call" -> "page_local"
      [] step = "page_local" -> IF save THEN "page_save" ELSE "done"
      [] OTHER -> "done"

\* The cap, the params, _http_get and raise_for_status; on an error status
\* the error document is saved and RuntimeError raised.
PageCall ==
    /\ pc = "page_call"
    /\ LET count == CapCount(args.count)
       IN  /\ params' = [user_id |-> user_id, count |-> count, max_id |-> args.max_id]
           /\ requests' = Append(requests, [kind |-> args.kind, page |-> args.page_num,
                                            user_id |-> user_id, count |-> count,
                                            max_id |-> args.max_id])
           /\ \E h \in PageCallResults :
                 /\ http' = h
                 /\ IF h.state = "returned" /\ h.status < 400
                    THEN /\ pc' = PageStepAfter("page_call", args.save)
                         /\ UNCHANGED <<raw_col, save_ret>>
                    ELSE IF h.state = "returned"
                    THEN LET err == Payload("http_error", args.kind, 0, 0, h.status, count,
                                            args.max_id, 0)
                             saved == SaveRaw(raw_col, err, ErrorEndpoint(args.kind), user_id,
                                              NoFile, now)
                         IN  /\ raw_col' = saved.col
                             /\ save_ret' = saved.id
                             /\ pc' = "raised"
                    ELSE /\ pc' = "raised"
                         /\ UNCHANGED <<raw_col, save_ret>>
    /\ UNCHANGED <<args, user_id, p, max_id, seen_cursors, results, upload, http_log,
                   local_fs, now, normVars, net, call, adapterVars>>

\* _write_local(data, username or str(user_id), 'posts_list', page_num)
PageWriteLocal ==
    /\ pc = "page_local"
    /\ local_fs' = WriteLocal(local_fs, LocalPath(Endpoint(args.kind), args.page_num, now),
                              http.body)
    /\ pc' = PageStepAfter("page_local", args.save)
    /\ UNCHANGED <<args, user_id, p, max_id, seen_cursors, params, results, upload, requests,
                   http, http_log, raw_col, now, save_ret, normVars, net, call, adapterVars>>

\* `if save:` _save_raw(db, data, ...): the record is inserted, or the
\* insert raises and the exception leaves the function.
PageSave ==
    /\ pc = "page_save"
    /\ \/ LET saved == SaveRaw(raw_col, http.body, Endpoint(args.kind), user_id,
                               FileName(Stem(args.kind), 0, now), now)
          IN  /\ raw_col' = saved.col
              /\ save_ret' = saved.id
              /\ pc' = PageStepAfter("page_save", args.save)
       \/ /\ pc' = "raised"
          /\ UNCHANGED <<raw_col, save_ret>>
    /\ UNCHANGED <<args, user_id, p, max_id, seen_cursors, params, results, upload, requests,
                   http, http_log, local_fs, now, normVars, net, call, adapterVars>>

InitPage ==
    /\ pc = "page_call"
    /\ args \in PageArgSets
    /\ user_id = 1
    /\ p = 0
    /\ max_id = NoValue
    /\ seen_cursors = {}
    /\ params = NoParams
    /\ results = EmptyResults
    /\ upload = NoUpload
    /\ requests = <<>>
    /\ http = HttpIdle
    /\ http_log = <<>>
    /\ StoreIdle
    /\ NormIdle
    /\ AdapterIdle
    /\ NetIdle
    /\ CallIdle

NextPage == PageCall \/ PageWriteLocal \/ PageSave

SpecPage == InitPage /\ [][NextPage]_vars

\* The page file of the call is on disk, holding the payload of the response.
PageFileWritten ==
    \E f \in local_fs :
       /\ f.path = LocalPath(Endpoint(args.kind), args.page_num, now)
       /\ f.payload = http.body

ResponseOk == http.state = "returned" /\ http.status < 400

JNone == [t |-> "none", s |-> <<>>, body |-> <<>>]
JStr(words) == [t |-> "str", s |-> words, body |-> <<>>]
JList(els) == [t |-> "list", s |-> <<>>, body |-> els]
JPair(k, v) == [k |-> k, v |-> v]
\* A pair left out of a dict literal.
NoPair == JPair("", JNone)
\* The dict of the pairs of ps that are not left out.
JDict(ps) == [t |-> "dict", s |-> <<>>, body |-> SelectSeq(ps, LAMBDA e : e.k # "")]

IsDict(x) == x.t = "dict"
IsList(x) == x.t = "list"
\* Python truthiness: a non-empty string, dict or list.
JTruthy(x) == (x.t = "str" /\ x.s # <<>>) \/ (x.t \in {"dict", "list"} /\ x.body # <<>>)
\* `k in d`
JHas(d, k) == \E i \in 1..Len(d.body) : d.body[i].k = k
\* d.get(k)
JGet(d, k) ==
    IF JHas(d, k) THEN d.body[CHOOSE i \in 1..Len(d.body) : d.body[i].k = k].v ELSE JNone
\* `a or b`
JOr(a, b) == IF JTruthy(a) THEN a ELSE b

\* ('next_max_id', 'max_id', 'next_cursor', 'cursor', 'end_cursor')
CursorKeys == <<"next_max_id", "max_id", "next_cursor", "cursor", "end_cursor">>
\* ('max_id', 'next_max_id')
MaxIdKeys == <<"max_id", "next_max_id">>
\* ('id', 'pk', 'shortcode', 'cursor')
NodeIdKeys == <<"id", "pk", "shortcode", "cursor">>
Range(seq) == {seq[i] : i \in 1..Len(seq)}

\* The loop over the keys keeping the last match instead of the first.
FirstTruthy_last_match(d, keys) ==
    LET set == {i \in 1..Len(keys) : JTruthy(JGet(d, keys[i]))}
    IN  IF set = {} THEN JNone
        ELSE JGet(d, keys[CHOOSE i \in set : \A j \in set : j <= i])

RECURSIVE FirstTruthy(_, _)
\* `for k in keys: if d.get(k): return d.get(k)`; None when the loop ends.
FirstTruthy(d, keys) ==
    IF keys = <<>> THEN JNone
    ELSE IF JTruthy(JGet(d, Head(keys))) THEN JGet(d, Head(keys))
    ELSE FirstTruthy(d, Tail(keys))

RECURSIVE FindKey(_, _), FindKeyPairs(_, _), FindKeyEls(_, _)
\* find_key: depth-first, in dict order, the first truthy value under one
\* of the keys.
FindKey(x, keys) ==
    IF IsDict(x) THEN FindKeyPairs(x.body, keys)
    ELSE IF IsList(x) THEN FindKeyEls(x.body, keys)
    ELSE JNone
FindKeyPairs(ps, keys) ==
    IF ps = <<>> THEN JNone
    ELSE IF Head(ps).k \in Range(keys) /\ JTruthy(Head(ps).v) THEN Head(ps).v
    ELSE IF JTruthy(FindKey(Head(ps).v, keys)) THEN FindKey(Head(ps).v, keys)
    ELSE FindKeyPairs(Tail(ps), keys)
FindKeyEls(els, keys) ==
    IF els = <<>> THEN JNone
    ELSE IF JTruthy(FindKey(Head(els), keys)) THEN FindKey(Head(els), keys)
    ELSE FindKeyEls(Tail(els), keys)

\* _extract_next_cursor(d): the top-level keys, the keys under `data`,
\* data.page_info.end_cursor, then find_key over the whole tree.
TreeExtractNextCursor(d) ==
    LET dd == JGet(d, "data")
        pi == JOr(JGet(dd, "page_info"), JDict(<<>>))
    IN  IF ~IsDict(d) THEN JNone
        ELSE IF JTruthy(FirstTruthy(d, CursorKeys)) THEN FirstTruthy(d, CursorKeys)
        ELSE IF JTruthy(dd) /\ IsDict(dd) /\ JTruthy(FirstTruthy(dd, CursorKeys))
        THEN FirstTruthy(dd, CursorKeys)
        ELSE IF JTruthy(dd) /\ IsDict(dd) /\ IsDict(pi) /\ JTruthy(JGet(pi, "end_cursor"))
        THEN JGet(pi, "end_cursor")
        ELSE FindKey(d, CursorKeys)

RECURSIVE FindPageInfoEndCursor(_), FindPageInfoSeq(_)
\* find_page_info_end_cursor
FindPageInfoEndCursor(x) ==
    IF IsDict(x)
    THEN IF /\ JHas(x, "page_info")
            /\ IsDict(JGet(x, "page_info"))
            /\ JTruthy(JGet(JGet(x, "page_info"), "end_cursor"))
         THEN JGet(JGet(x, "page_info"), "end_cursor")
         ELSE FindPageInfoSeq([i \in 1..Len(x.body) |-> x.body[i].v])
    ELSE IF IsList(x) THEN FindPageInfoSeq(x.body)
    ELSE JNone
FindPageInfoSeq(vals) ==
    IF vals = <<>> THEN JNone
    ELSE IF JTruthy(FindPageInfoEndCursor(Head(vals))) THEN FindPageInfoEndCursor(Head(vals))
    ELSE FindPageInfoSeq(Tail(vals))

\* `node = last.get('node') if 'node' in last else last`, then the first of
\* id, pk, shortcode, cursor that the node holds.
LastNodeId(v) ==
    LET last == v[Len(v)]
        node == IF JHas(last, "node") THEN JGet(last, "node") ELSE last
    IN  IF IsDict(last) /\ IsDict(node) THEN FirstTruthy(node, NodeIdKeys) ELSE JNone

Reversed(seq) == [i \in 1..Len(seq) |-> seq[Len(seq) + 1 - i]]

RECURSIVE FindLastNodeId(_), FindLastNodePairs(_), FindLastNodeEls(_)
\* find_last_node_id
FindLastNodeId(x) ==
    IF IsDict(x) THEN FindLastNodePairs(x.body)
    ELSE IF IsList(x) THEN FindLastNodeEls(Reversed(x.body))
    ELSE JNone
FindLastNodePairs(ps) ==
    IF ps = <<>> THEN JNone
    ELSE LET k == Head(ps).k
             v == Head(ps).v
         IN  IF /\ k \in {"edges", "items"}
                /\ IsList(v)
                /\ JTruthy(v)
                /\ JTruthy(LastNodeId(v.body))
             THEN LastNodeId(v.body)
             ELSE IF JTruthy(FindLastNodeId(v)) THEN FindLastNodeId(v)
             ELSE FindLastNodePairs(Tail(ps))
FindLastNodeEls(els) ==
    IF els = <<>> THEN JNone
    ELSE IF JTruthy(FindLastNodeId(Head(els))) THEN FindLastNodeId(Head(els))
    ELSE FindLastNodeEls(Tail(els))

\* _find_candidate_max_id(data)
TreeFindCandidateMaxId(data) ==
    IF JTruthy(TreeExtractNextCursor(data)) THEN TreeExtractNextCursor(data)
    ELSE IF JTruthy(FindPageInfoEndCursor(data)) THEN FindPageInfoEndCursor(data)
    ELSE IF JTruthy(FindLastNodeId(data)) THEN FindLastNodeId(data)
    ELSE FindKey(data, MaxIdKeys)

\* next_cursor = _extract_next_cursor(data) or _find_candidate_max_id(data)
CursorResolver(data) == JOr(TreeExtractNextCursor(data), TreeFindCandidateMaxId(data))

(***************************************************************************)
(* SpecCursor: the cursor functions applied to one payload tree            *)
(***************************************************************************)
CursorKeySet == Range(CursorKeys)

\* The payloads the functions are applied to, by what they hold:
\*   top    the cursor keys set at top level (in the dict in the reverse of
\*          the priority order)
\*   blank  whether next_max_id is at top level with the empty string
\*   data   the cursor key set directly under `data`, or "none"
\*   pi     where a page_info with an end_cursor is: nowhere, directly under
\*          `data`, or two levels down another top-level key
\*   list   the list under `data`: its key (edges of {'node': {...}}
\*          elements, items of plain elements), its length (0: no list) and
\*          the identifier key of its elements
\*   deep   the cursor-like key held two levels down the top-level key
\*          `meta`, or "none", and whether `meta` comes first in the payload
PayloadShapes ==
    {sh \in [top : {t \in SUBSET CursorKeySet : Cardinality(t) <= MaxTopKeys},
              blank : BOOLEAN,
              data : {"none"} \cup CursorKeySet,
              pi : {"none", "data", "deep"},
              list : [key : {"edges", "items"}, n : 0..MaxElements, idkey : Range(NodeIdKeys)],
              deep : {"none", "max_id", "cursor"},
              deep_first : BOOLEAN] :
        /\ sh.blank => "next_max_id" \notin sh.top
        /\ sh.list.n = 0 => (sh.list.key = "items" /\ sh.list.idkey = "id")
        /\ sh.deep = "none" => ~sh.deep_first}

ListElement(sh, i) ==
    LET el == JDict(<<JPair(sh.list.idkey, JStr(<<"element", ToString(i)>>))>>)
    IN  IF sh.list.key = "edges" THEN JDict(<<JPair("node", el)>>) ELSE el

PageInfo == JDict(<<JPair("end_cursor", JStr(<<"page_info">>))>>)

DataDict(sh) ==
    JDict(<<IF sh.data # "none" THEN JPair(sh.data, JStr(<<"data", sh.data>>)) ELSE NoPair,
            IF sh.list.n > 0
            THEN JPair(sh.list.key, JList([i \in 1..sh.list.n |-> ListElement(sh, i)]))
            ELSE NoPair,
            IF sh.pi = "data" THEN JPair("page_info", PageInfo) ELSE NoPair>>)

Meta(sh) ==
    IF sh.deep = "none" THEN NoPair
    ELSE JPair("meta", JDict(<<JPair("inner",
                 JDict(<<JPair(sh.deep, JStr(<<"deep", sh.deep>>))>>))>>))

PayloadTree(sh) ==
    LET top == [i \in 1..Len(CursorKeys) |->
                  LET k == Reversed(CursorKeys)[i]
                  IN  IF k \in sh.top THEN JPair(k, JStr(<<"top", k>>))
                      ELSE IF k = "next_max_id" /\ sh.blank THEN JPair(k, JStr(<<>>))
                      ELSE NoPair]
        extra == JDict(<<JPair("sub", JDict(<<JPair("page_info", PageInfo)>>))>>)
    IN  JDict(<<IF sh.deep_first THEN Meta(sh) ELSE NoPair>>
              \o top
              \o <<IF DataDict(sh).body # <<>> THEN JPair("data", DataDict(sh)) ELSE NoPair,
                   IF sh.pi = "deep" THEN JPair("extra", extra) ELSE NoPair,
                   IF ~sh.deep_first THEN Meta(sh) ELSE NoPair>>)

\* The functions are called on the payload.
ResolveCursor ==
    /\ call.fn = "cursor_pending"
    /\ call' = [fn |-> "cursor_returned", arg |-> call.arg,
                ret |-> [extracted |-> TreeExtractNextCursor(call.arg.tree),
                         candidate |-> TreeFindCandidateMaxId(call.arg.tree),
                         resolved |-> CursorResolver(call.arg.tree)]]
    /\ UNCHANGED <<fetchVars, http, http_log, storeVars, normVars, net, adapterVars>>

InitCursor ==
    /\ FetchIdle
    /\ http = HttpIdle
    /\ http_log = <<>>
    /\ StoreIdle
    /\ NormIdle
    /\ AdapterIdle
    /\ NetIdle
    /\ \E sh \in PayloadShapes :
          call = [fn |-> "cursor_pending", arg |-> [shape |-> sh, tree |-> PayloadTree(sh)],
                  ret |-> <<>>]

NextCursorCall == ResolveCursor

SpecCursor == InitCursor /\ [][NextCursorCall]_vars

CursorReturned == call.fn = "cursor_returned"

\* The value of the first key, in priority order, that the dict d holds
\* with a non-empty value.
ByPriority(d) ==
    LET set == {i \in 1..Len(CursorKeys) : JTruthy(JGet(d, CursorKeys[i]))}
        first == CHOOSE i \in set : \A j \in set : i <= j
    IN  JGet(d, CursorKeys[first])
HasExplicit(d) == IsDict(d) /\ \E k \in CursorKeySet : JTruthy(JGet(d, k))

\* C22: a non-empty cursor field at top level is returned, the first in the
\* order next_max_id, max_id, next_cursor, cursor, end_cursor, whatever the
\* payload nests; the fields directly under `data` are consulted, in the
\* same order, only when no top-level field is set.
C22_ExplicitFieldsFirstMatchWins ==
    CursorReturned =>
        LET d == call.arg.tree
            dd == JGet(d, "data")
        IN  /\ HasExplicit(d) =>
                  /\ call.ret.resolved = ByPriority(d)
                  /\ call.ret.extracted = ByPriority(d)
            /\ (~HasExplicit(d) /\ HasExplicit(dd)) =>
                  /\ call.ret.resolved = ByPriority(dd)
                  /\ call.ret.extracted = ByPriority(dd)

\* Two top-level fields are set, with a field under `data`, a deeper
\* cursor-like key ahead of them in the payload and a blank next_max_id:
\* the top-level field of higher priority was returned.
C22_Witness ==
    /\ CursorReturned
    /\ call.arg.shape.top = {"cursor", "end_cursor"}
    /\ call.arg.shape.blank
    /\ call.arg.shape.data = "next_max_id"
    /\ call.arg.shape.deep = "max_id" /\ call.arg.shape.deep_first
    /\ call.ret.resolved = JStr(<<"top", "cursor">>)

\* The payload has no explicit cursor field at top level or directly under `data`.
NoExplicitCursor ==
    ~HasExplicit(call.arg.tree) /\ ~HasExplicit(JGet(call.arg.tree, "data"))

\* C23: with no explicit cursor field at top level or directly under
\* `data`, the resolver returns the end_cursor of a page_info found at any
\* depth, whatever cursor-like keys of other names the tree nests; failing
\* that (and with no edges/items list) the value of a max_id or next_max_id
\* key found at any depth; and it returns None only when nothing matches.
C23_PageInfoBeforeNestedKeys ==
    (CursorReturned /\ NoExplicitCursor) =>
        LET d == call.arg.tree
        IN  /\ JTruthy(FindPageInfoEndCursor(d)) =>
                  call.ret.resolved = FindPageInfoEndCursor(d)
            /\ (/\ ~JTruthy(FindPageInfoEndCursor(d))
                /\ ~JTruthy(FindLastNodeId(d))
                /\ JTruthy(FindKey(d, MaxIdKeys))) =>
                  call.ret.resolved = FindKey(d, MaxIdKeys)
            /\ call.ret.resolved = JNone =>
                  /\ ~JTruthy(FindPageInfoEndCursor(d))
                  /\ ~JTruthy(FindLastNodeId(d))
                  /\ ~JTruthy(FindKey(d, MaxIdKeys))

\* The payload holds an edges/items list whose last element has an identifier.
HasListWithId == JTruthy(FindLastNodeId(call.arg.tree))

\* C24: with no explicit cursor field, no page_info end cursor, an
\* edges/items list whose last element has an identifier and a max_id or
\* next_max_id key nested elsewhere, the resolver returns the identifier of
\* the last element.
C24_LastElementBeforeLastResort ==
    (/\ CursorReturned
     /\ NoExplicitCursor
     /\ ~JTruthy(FindPageInfoEndCursor(call.arg.tree))
     /\ HasListWithId
     /\ call.arg.shape.deep = "max_id")
       => call.ret.resolved = FindLastNodeId(call.arg.tree)

\* C25: when the only source of a cursor is an edges/items list, the
\* resolver returns the identifier of the last element of the list, for
\* every length of the list and each of the keys id, pk, shortcode, cursor.
C25_IdentifierOfLastElement ==
    (/\ CursorReturned
     /\ NoExplicitCursor
     /\ call.arg.shape.pi = "none"
     /\ call.arg.shape.deep = "none"
     /\ call.arg.shape.list.n > 0)
       => call.ret.resolved = JStr(<<"element", ToString(call.arg.shape.list.n)>>)

(***************************************************************************)
(* adapter.py: extract_username on a payload tree.  A file name is a       *)
(* string whose words are its tokens between `_`, `-` and blanks; a token  *)
(* in parentheses is the word "(" followed by the token.                   *)
(***************************************************************************)
\* An exception leaves the function.
JRaise == [t |-> "raise", s |-> <<>>, body |-> <<>>]
IsStr(x) == x.t = "str"

\* ('username', 'user_name', 'screen_name', 'id')
UserNameKeys == <<"username", "user_name", "screen_name", "id">>
\* ('source_file', 'source_path', 'file_name', 'file')
SourceFileKeys == <<"source_file", "source_path", "file_name", "file">>
\* The tokens that `_(?:user|user_info|posts|post|posts_list|reel|reels)` matches.
SuffixTokens == {"user", "posts", "post", "reel", "reels"}

RECURSIVE FirstTruthyStr(_, _)
\* The first of the keys that d holds with a non-empty string.
FirstTruthyStr(d, keys) ==
    IF keys = <<>> THEN JNone
    ELSE IF IsStr(JGet(d, Head(keys))) /\ JTruthy(JGet(d, Head(keys))) THEN JGet(d, Head(keys))
    ELSE FirstTruthyStr(d, Tail(keys))

\* Step 5 on the file name sf: the segment in parentheses, or the longest
\* prefix that a recognized suffix token follows, or the first token.
NameFromFile(sf) ==
    LET w == sf.s
        parens == {i \in 1..(Len(w) - 1) : w[i] = "("}
        cuts == {k \in 1..(Len(w) - 1) : w[k + 1] \in SuffixTokens /\ w[1] # "("}
    IN  IF parens # {} THEN JStr(<<w[(CHOOSE i \in parens : \A j \in parens : i <= j) + 1]>>)
        ELSE IF cuts # {} THEN JStr(SubSeq(w, 1, CHOOSE k \in cuts : \A j \in cuts : j <= k))
        ELSE JStr(<<w[1]>>)

\* extract_username(raw): the top-level username, the `user` sub-object,
\* the `data` wrapper, the author/owner sub-objects, the file name.
ExtractUsername(raw) ==
    LET user == JGet(raw, "user")
        data == JGet(raw, "data")
        author == JGet(raw, "author")
        owner == JGet(raw, "owner")
        sf == FirstTruthyStr(raw, SourceFileKeys)
    IN  IF ~JTruthy(raw) THEN JNone
        ELSE IF ~IsDict(raw) THEN JRaise
        ELSE IF IsStr(JGet(raw, "username")) /\ JTruthy(JGet(raw, "username"))
        THEN JGet(raw, "username")
        ELSE IF IsDict(user) /\ JTruthy(FirstTruthyStr(user, UserNameKeys))
        THEN FirstTruthyStr(user, UserNameKeys)
        ELSE IF IsDict(data) /\ JHas(data, "username") /\ IsStr(JGet(data, "username"))
        THEN JGet(data, "username")
        ELSE IF /\ IsDict(data) /\ JHas(data, "user") /\ IsDict(JGet(data, "user"))
                /\ JHas(JGet(data, "user"), "username")
        THEN JGet(JGet(data, "user"), "username")
        ELSE IF IsDict(author) /\ JTruthy(JGet(author, "username")) THEN JGet(author, "username")
        ELSE IF IsDict(owner) /\ JTruthy(JGet(owner, "username")) THEN JGet(owner, "username")
        ELSE IF JTruthy(sf) THEN NameFromFile(sf)
        ELSE JNone

\* The payloads extract_username is applied to, by what they hold:
\*   kind    a dict, a JSON array, or an empty dict
\*   top     the top-level username: none, a name, or the empty string
\*   user    the `user` sub-object: none, with a username, with an id
\*           only, or with a username that is not a string
\*   data    the `data` wrapper: none, with a username, with an empty
\*           username, with a user holding a username, or with a user
\*           holding a username that is not a string
\*   author  none, an `author` or an `owner` sub-object with a username,
\*           or an `author` whose username is not a string
\*   file    the source_file of the payload: none, one with a segment in
\*           parentheses, one with a recognized suffix, a plain one
IdentityShapes ==
    {sh \in [kind : {"dict", "list", "empty"},
              top : {"none", "name", "empty"},
              user : {"none", "username", "id", "nonstr"},
              data : {"none", "username", "empty", "user", "user_nonstr"},
              author : {"none", "author", "owner", "nonstr"},
              file : {"none", "paren", "suffix", "plain"}] :
        sh.kind # "dict" =>
            /\ sh.top = "none" /\ sh.user = "none" /\ sh.data = "none"
            /\ sh.author = "none" /\ sh.file = "none"}

\* A value that is not a string: a list holding a name.
NotAString(word) == JList(<<JStr(<<word>>)>>)

IdentityTree(sh) ==
    IF sh.kind = "list" THEN JList(<<JDict(<<JPair("id", JStr(<<"item">>))>>)>>)
    ELSE JDict(<<
        CASE sh.author = "author" -> JPair("author", JDict(<<JPair("username", JStr(<<"author">>))>>))
          [] sh.author = "owner" -> JPair("owner", JDict(<<JPair("username", JStr(<<"owner">>))>>))
          [] sh.author = "nonstr" -> JPair("author", JDict(<<JPair("username", NotAString("author"))>>))
          [] OTHER -> NoPair,
        CASE sh.data = "username" -> JPair("data", JDict(<<JPair("username", JStr(<<"data">>))>>))
          [] sh.data = "empty" -> JPair("data", JDict(<<JPair("username", JStr(<<>>))>>))
          [] sh.data = "user" ->
               JPair("data", JDict(<<JPair("user", JDict(<<JPair("username", JStr(<<"data_user">>))>>))>>))
          [] sh.data = "user_nonstr" ->
               JPair("data", JDict(<<JPair("user", JDict(<<JPair("username", NotAString("data_user"))>>))>>))
          [] OTHER -> NoPair,
        CASE sh.user = "username" -> JPair("user", JDict(<<JPair("username", JStr(<<"user">>))>>))
          [] sh.user = "id" -> JPair("user", JDict(<<JPair("id", JStr(<<"user_id">>))>>))
          [] sh.user = "nonstr" -> JPair("user", JDict(<<JPair("username", NotAString("user"))>>))
          [] OTHER -> NoPair,
        CASE sh.top = "name" -> JPair("username", JStr(<<"top">>))
          [] sh.top = "empty" -> JPair("username", JStr(<<>>))
          [] OTHER -> NoPair,
        CASE sh.file = "paren" -> JPair("source_file", JStr(<<"export", "(", "paren", "posts">>))
          [] sh.file = "suffix" -> JPair("source_file", JStr(<<"tikhub", "user", "info", "file">>))
          [] sh.file = "plain" -> JPair("file_name", JStr(<<"plain", "dump">>))
          [] OTHER -> NoPair>>)

\* extract_username is called on the payload.
CallExtractUsername ==
    /\ call.fn = "username_pending"
    /\ call' = [fn |-> "username_returned", arg |-> call.arg,
                ret |-> ExtractUsername(call.arg.tree)]
    /\ UNCHANGED <<fetchVars, http, http_log, storeVars, normVars, net, adapterVars>>

InitIdentity ==
    /\ FetchIdle
    /\ http = HttpIdle
    /\ http_log = <<>>
    /\ StoreIdle
    /\ NormIdle
    /\ AdapterIdle
    /\ NetIdle
    /\ \E sh \in IdentityShapes :
          call = [fn |-> "username_pending",
                  arg |-> [shape |-> sh, tree |-> IdentityTree(sh)], ret |-> JNone]

NextIdentity == CallExtractUsername

SpecIdentity == InitIdentity /\ [][NextIdentity]_vars

\* C26: with no top-level identity field and no `user` sub-object, a
\* payload that has an identity in an author/owner sub-object and one in
\* the `data` wrapper resolves to the author/owner identity.
C26_AuthorBeforeData ==
    (/\ call.fn = "username_returned"
     /\ call.arg.shape.top = "none"
     /\ call.arg.shape.user = "none"
     /\ call.arg.shape.author \in {"author", "owner"}
     /\ call.arg.shape.data \in {"username", "user"})
       => call.ret = JStr(<<call.arg.shape.author>>)

(***************************************************************************)
(* SpecNormalize: records classified as identity info                      *)
(***************************************************************************)
\* C27: a record classified as identity info contributes no content item:
\* the posts of the Snapshot are the items of the other records only.
C27_InfoRecordsContributeNoContent ==
    snapshot.called => snapshot.posts = ContentItems(records)

(***************************************************************************)
(* SpecAdapter: the grouping loop of run_adapter over the raw documents    *)
(* that raw_col.find({'platform': 'instagram'}) yields                     *)
(***************************************************************************)
\* The documents read in one run.
MaxDocs == 2

IdentityFields == {"top", "user", "data", "author", "file"}

\* The payload shapes of the stored documents: at most one place holds an
\* identity, next to a `data` wrapper that has none or an empty one.
AdapterShapes ==
    {sh \in IdentityShapes :
        Cardinality({f \in IdentityFields : sh[f] # "none"}
                    \ (IF sh.data = "empty" THEN {"data"} ELSE {})) <= 1}

\* A stored document: its payload (None when the document has no `raw`),
\* and its username, file_hash and source_file fields (None when _save_raw
\* was given no username or no source file, or when the document was not
\* written by _save_raw).
AdapterDocs ==
    {[raw |-> tree, username |-> un, file_hash |-> fh, source_file |-> sf] :
        tree \in {IdentityTree(sh) : sh \in AdapterShapes} \cup {JNone},
        un \in {JNone, JStr(<<"doc">>)},
        fh \in {JNone, JStr(<<"hash">>)},
        sf \in {JNone, JStr(<<"staged", "posts", "file">>)}}

\* sf.split('_')[0]
SplitFirst(sf) == JStr(<<sf.s[1]>>)

\* f"unknown_{doc.get('_id')}"
Placeholder(id) == JStr(<<"unknown", ToString(id)>>)

\* A dict key must be hashable: a list or a dict is not.
Hashable(x) == ~(IsDict(x) \/ IsList(x))

\* The key run_adapter files the document with _id `id` under, or JRaise
\* when an exception leaves the loop body.
GroupKey(doc, id) ==
    LET raw == JOr(doc.raw, JDict(<<>>))
        extracted == ExtractUsername(raw)
        first == JOr(extracted, JOr(doc.username, JOr(JGet(raw, "username"), doc.file_hash)))
        sf == JOr(JGet(raw, "source_file"), JOr(doc.source_file, JNone))
        inferred == IF ~JTruthy(first) /\ IsStr(sf) THEN SplitFirst(sf) ELSE first
        username == IF ~JTruthy(inferred) THEN Placeholder(id) ELSE inferred
    IN  IF extracted = JRaise THEN JRaise
        ELSE IF ~Hashable(username) THEN JRaise
        ELSE username

\* One iteration of `for doc in cursor`: the document is appended to the
\* group of its key, or an exception ends run_adapter.
GroupDoc ==
    /\ grouping.pc = "reading"
    /\ grouping.total < MaxDocs
    /\ \E doc \in AdapterDocs :
          LET id == grouping.total + 1
              key == GroupKey(doc, id)
          IN  grouping' =
                IF key = JRaise
                THEN [grouping EXCEPT !.pc = "aborted", !.total = id, !.doc = doc]
                ELSE [grouping EXCEPT !.total = id, !.doc = doc,
                                      !.groups = @ \cup {<<key, id>>}]
    /\ UNCHANGED <<fetchVars, http, http_log, storeVars, normVars, net, call, snapshot_col>>

\* The cursor is exhausted: the loop ends.
GroupingOver ==
    /\ grouping.pc = "reading"
    /\ grouping' = [grouping EXCEPT !.pc = "grouped"]
    /\ UNCHANGED <<fetchVars, http, http_log, storeVars, normVars, net, call, snapshot_col>>

InitAdapter ==
    /\ FetchIdle
    /\ http = HttpIdle
    /\ http_log = <<>>
    /\ StoreIdle
    /\ NormIdle
    /\ NetIdle
    /\ CallIdle
    /\ grouping = [NoGrouping EXCEPT !.pc = "reading"]
    /\ snapshot_col = <<>>

NextAdapter == GroupDoc \/ GroupingOver

SpecAdapter == InitAdapter /\ [][NextAdapter]_vars

\* The groups the document with _id `id` is in.
GroupsOf(id) == {g \in grouping.groups : g[2] = id}

\* C28: whatever the payload of a document, run_adapter does not abort and
\* every document read is in exactly one group, so the group sizes sum to
\* the number of documents read.
C28_EveryDocumentInOneGroup ==
    /\ grouping.pc # "aborted"
    /\ \A id \in 1..grouping.total : Cardinality(GroupsOf(id)) = 1
    /\ Cardinality(grouping.groups) = grouping.total

(***************************************************************************)
(* SpecApply: the snapshot of one identity is normalized and upserted into *)
(* the user_snapshots collection, which UserSnapshotRepository also writes *)
(***************************************************************************)
\* The documents create_snapshot inserts.
MaxSnapshotDocs == 2
\* The records of the group that is normalized.
MaxApplyGroup == 1

\* The snapshot as the dict normalize_snapshot returns.
SnapshotDoc(snap) == [f \in DOMAIN snap \ {"called"} |-> snap[f]]

\* The positions of the documents that match {'platform': .., 'user_id': ..}.
Matching(col, platform, uid) ==
    {i \in 1..Len(col) : col[i].platform = platform /\ col[i].user_id = uid}

\* {'$set': update} applied to a document: the fields of `update` are
\* assigned, the other fields of the document stay.
SetFields(doc, update) ==
    [f \in DOMAIN doc \cup DOMAIN update |->
        IF f \in DOMAIN update THEN update[f] ELSE doc[f]]

\* collection.update_one({'platform': .., 'user_id': ..}, {'$set': update},
\* upsert=upsert): the first matching document is updated; without a
\* match, an upsert inserts the filter fields with the update applied.
UpdateOne(col, platform, uid, update, upsert) ==
    LET match == Matching(col, platform, uid)
        first == CHOOSE i \in match : \A j \in match : i <= j
    IN  IF match # {} THEN [col EXCEPT ![first] = SetFields(@, update)]
        ELSE IF upsert
        THEN Append(col, SetFields([platform |-> platform, user_id |-> uid], update))
        ELSE col

\* snapshot_col.update_one(filter_q, {'$set': snap}, upsert=True)
ApplySnapshot ==
    /\ snapshot.called
    /\ snapshot_col' = UpdateOne(snapshot_col, "instagram", snapshot.user_id,
                                 SnapshotDoc(snapshot), TRUE)
    /\ UNCHANGED <<fetchVars, http, http_log, storeVars, normVars, net, call, grouping>>

\* UserSnapshotRepository.create_snapshot(snapshot_data): created_at is
\* stamped and the document is inserted.
CreateSnapshot ==
    /\ Len(snapshot_col) < MaxSnapshotDocs
    /\ \E platform \in {"instagram", "xiaohongshu"} :
          snapshot_col' = Append(snapshot_col,
                                 [platform |-> platform, user_id |-> Identity,
                                  notes |-> <<>>, created_at |-> now])
    /\ UNCHANGED <<fetchVars, http, http_log, storeVars, normVars, net, call, grouping>>

\* UserSnapshotRepository.update_snapshot(user_id, platform, notes)
UpdateSnapshot ==
    /\ \E platform \in {"instagram", "xiaohongshu"} :
          snapshot_col' = UpdateOne(snapshot_col, platform, Identity,
                                    [notes |-> <<"note">>, total_notes |-> 1,
                                     updated_at |-> now], FALSE)
    /\ UNCHANGED <<fetchVars, http, http_log, storeVars, normVars, net, call, grouping>>

InitApply ==
    /\ FetchIdle
    /\ http = HttpIdle
    /\ http_log = <<>>
    /\ StoreIdle
    /\ \E n \in 1..MaxApplyGroup : records \in [1..n -> RecordPool]
    /\ snapshot = NoSnapshot
    /\ prev_snapshot = NoSnapshot
    /\ NetIdle
    /\ CallIdle
    /\ AdapterIdle

NextApply == Normalize \/ ApplySnapshot \/ CreateSnapshot \/ UpdateSnapshot \/ Tick

SpecApply == InitApply /\ [][NextApply]_vars

\* The documents stored for the key of the snapshot.
StoredForKey(col) ==
    {i \in 1..Len(col) : col[i].platform = "instagram" /\ col[i].user_id = snapshot.user_id}

\* C29: after the snapshot upsert the collection holds exactly one document
\* for (platform, identity), and that document is the new Snapshot: no
\* field of a document stored before survives.
C29_UpsertIsFullOverwrite ==
    [][ApplySnapshot =>
          /\ Cardinality(StoredForKey(snapshot_col')) = 1
          /\ \A i \in StoredForKey(snapshot_col') : snapshot_col'[i] = SnapshotDoc(snapshot)]_vars

(***************************************************************************)
(* SpecNetwork: vectors of different lengths and zero vectors              *)
(***************************************************************************)
\* The two vectors differ in length, or one of them has magnitude 0.
Degenerate(v, w) == Len(v) # Len(w) \/ DotProduct(v, v) = 0 \/ DotProduct(w, w) = 0

\* The pairs of node positions of the last run whose two nodes both have an
\* embedding and whose vectors are degenerate.
DegeneratePairs ==
    LET creators == net.creator_networks[1].creators
        emb == net.user_embeddings
    IN  {pair \in (1..Len(creators)) \X (1..Len(creators)) :
            /\ pair[1] < pair[2]
            /\ emb[creators[pair[1]].id] # <<>>
            /\ emb[creators[pair[2]].id] # <<>>
            /\ Degenerate(emb[creators[pair[1]].id], emb[creators[pair[2]].id])}

\* C30: cosine_similarity returns 0 for two vectors that differ in length
\* and when either has magnitude 0; in build_network_edges such a pair
\* yields no edge, and every pair of the run, before it and after it, is
\* still evaluated.
C30_DegeneratePairYieldsNoEdge ==
    net.edges_built =>
        LET creators == net.creator_networks[1].creators
            edges == net.creator_networks[1].edges
            emb == net.user_embeddings
            n == Len(creators)
        IN  /\ \A pair \in DegeneratePairs :
                  LET x == creators[pair[1]].id
                      y == creators[pair[2]].id
                  IN  /\ CosineSimilarity(emb[x], emb[y]) = ZeroSimilarity
                      /\ ~Joined(edges, x, y)
            /\ \A i, j \in 1..n :
                  i < j => \E k \in 1..Len(net.evaluated) : net.evaluated[k] = <<i, j>>
            /\ Len(net.evaluated) = (n * (n - 1)) \div 2

\* C30 witness: a run over three creators in which the vector of the first
\* differs in length from the other two, and the pair evaluated after these
\* two pairs is joined at a cosine of 0.7.
C30_Witness ==
    /\ net.edges_built
    /\ Len(net.user_profiles) = 3
    /\ net.user_profiles[1].user_id = "a"
    /\ net.user_profiles[2].user_id = "b"
    /\ net.user_profiles[3].user_id = "c"
    /\ net.user_embeddings["a"] = <<1, 0>>
    /\ net.user_embeddings["b"] = <<1, 0, 0, 0>>
    /\ net.user_embeddings["c"] = <<7, 1, 1, 7>>
    /\ DegeneratePairs = {<<1, 2>>, <<1, 3>>}
    /\ net.creator_networks[1].edges = <<[source |-> "b", target |-> "c"]>>
    /\ net.evaluated = <<<<1, 2>>, <<1, 3>>, <<2, 3>>>>

(***************************************************************************)
(* SpecNetwork: the order of the creators                                  *)
(***************************************************************************)
\* C31: cosine_similarity(a, b) equals cosine_similarity(b, a), so two
\* creators that both have an embedding are joined exactly when the
\* similarity computed with the two taken in the other order reaches the
\* threshold.
C31_CosineSymmetric ==
    /\ \A v, w \in Vectors : CosineSimilarity(v, w) = CosineSimilarity(w, v)
    /\ net.edges_built =>
          LET creators == net.creator_networks[1].creators
              edges == net.creator_networks[1].edges
              emb == net.user_embeddings
          IN  \A i, j \in 1..Len(creators) :
                (i < j /\ emb[creators[i].id] # <<>> /\ emb[creators[j].id] # <<>>) =>
                    (Joined(edges, creators[i].id, creators[j].id)
                       <=> AtLeast(CosineSimilarity(emb[creators[j].id], emb[creators[i].id]),
                                   SIMILARITY_THRESHOLD))

\* C31 witness: "b" is listed before "a", their vectors have different
\* magnitudes and a cosine of 0.7, and the run joins them.
C31_Witness ==
    /\ net.edges_built
    /\ Len(net.user_profiles) = 2
    /\ net.user_profiles[1].user_id = "b"
    /\ net.user_profiles[2].user_id = "a"
    /\ net.user_embeddings["a"] = <<1, 0, 0, 0>>
    /\ net.user_embeddings["b"] = <<7, 1, 1, 7>>
    /\ net.creator_networks[1].edges = <<[source |-> "b", target |-> "a"]>>

(***************************************************************************)
(* SpecReplace: generate() with save_to_mongodb taken one store operation  *)
(* at a time, over a creator_networks collection that already holds        *)
(* documents, for successive runs                                          *)
(***************************************************************************)
\* The documents creator_networks holds before the first run.
MaxPriorNetworks == 2
\* The runs of generate() after the first.
MaxRuns == 1

\* network_data, by platform, nodes, edges, the counts and created_at.
NetworkDoc(platform, creators, edges, ts) ==
    [platform |-> platform, creators |-> creators, edges |-> edges,
     creator_count |-> Len(creators), edge_count |-> Len(edges), created_at |-> ts]

\* A document stored by CreatorNetworkRepository.create_network or by an
\* earlier build.
PriorNetwork(platform) == NetworkDoc(platform, <<>>, <<>>, 0)

\* The positions of the documents of the platform.
OfPlatform(col, platform) == {i \in 1..Len(col) : col[i].platform = platform}

RECURSIVE DeleteMany_first_match_only(_, _)
\* delete of the first document of the platform only.
DeleteMany_first_match_only(col, platform) ==
    IF col = <<>> THEN <<>>
    ELSE IF Head(col).platform = platform THEN Tail(col)
    ELSE <<Head(col)>> \o DeleteMany_first_match_only(Tail(col), platform)

RECURSIVE DeleteMany(_, _)
\* creator_networks.delete_many({'platform': platform})
DeleteMany(col, platform) ==
    IF col = <<>> THEN <<>>
    ELSE IF Head(col).platform = platform THEN DeleteMany(Tail(col), platform)
    ELSE <<Head(col)>> \o DeleteMany(Tail(col), platform)

\* generate() up to the call of save_to_mongodb, and network_data built in
\* it: the run returns when there is no profile.
ReplaceCompute ==
    /\ net.pc = "idle"
    /\ LET profiles == net.user_profiles
           embeddings == LoadEmbeddings(net.user_embeddings)
           creators == BuildCreatorNodes(profiles)
           build == Cardinality(DOMAIN embeddings) >= 2
           built == IF build THEN BuildNetworkEdges(creators, embeddings)
                    ELSE [edges |-> <<>>, evaluated |-> <<>>]
       IN  IF profiles = <<>>
           THEN net' = [net EXCEPT !.pc = "returned"]
           ELSE net' = [net EXCEPT !.pc = "delete",
                                   !.pending = NetworkDoc("instagram", creators, built.edges, now),
                                   !.before = net.creator_networks,
                                   !.evaluated = built.evaluated, !.edges_built = build]
    /\ UNCHANGED <<fetchVars, http, http_log, storeVars, normVars, call, adapterVars>>

\* deleted = self.creator_networks.delete_many({'platform': 'instagram'})
ReplaceDelete ==
    /\ net.pc = "delete"
    /\ net' = [net EXCEPT !.pc = "insert",
                          !.creator_networks = DeleteMany(@, "instagram")]
    /\ UNCHANGED <<fetchVars, http, http_log, storeVars, normVars, call, adapterVars>>

\* result = self.creator_networks.insert_one(network_data): the document
\* is stored, or the insert raises and main() returns 1.
ReplaceInsert ==
    /\ net.pc = "insert"
    /\ \/ net' = [net EXCEPT !.pc = "saved", !.creator_networks = Append(@, net.pending)]
       \/ net' = [net EXCEPT !.pc = "failed"]
    /\ UNCHANGED <<fetchVars, http, http_log, storeVars, normVars, call, adapterVars>>

\* The generator is run again, a second later.
ReplaceAgain ==
    /\ net.pc \in {"saved", "failed", "returned"}
    /\ net.runs < MaxRuns
    /\ now < MaxClock
    /\ net' = [net EXCEPT !.pc = "idle", !.runs = @ + 1]
    /\ now' = now + 1
    /\ UNCHANGED <<fetchVars, http, http_log, raw_col, local_fs, save_ret, normVars, call,
                   adapterVars>>

\* The embeddings of the runs: two creators at a cosine of 0.7, one without.
ReplaceEmbeddings ==
    {[u \in UserIds |-> CASE u = "a" -> <<1, 0, 0, 0>> [] u = "b" -> <<7, 1, 1, 7>> [] OTHER -> <<>>]}

\* The collection before the first run: up to MaxPriorNetworks documents of
\* this and of another platform.
PriorStores ==
    UNION {[1..n -> {PriorNetwork("instagram"), PriorNetwork("xiaohongshu")}] :
              n \in 0..MaxPriorNetworks}

InitReplace ==
    /\ FetchIdle
    /\ http = HttpIdle
    /\ http_log = <<>>
    /\ StoreIdle
    /\ NormIdle
    /\ AdapterIdle
    /\ CallIdle
    /\ \E emb \in ReplaceEmbeddings, prior \in PriorStores :
          net = [pc |-> "idle", user_profiles |-> <<>>, user_embeddings |-> emb,
                 creator_networks |-> prior, evaluated |-> <<>>, edges_built |-> FALSE,
                 pending |-> PriorNetwork("instagram"), before |-> <<>>, runs |-> 0]

NextReplace ==
    CreateProfile \/ ReplaceCompute \/ ReplaceDelete \/ ReplaceInsert \/ ReplaceAgain

SpecReplace == InitReplace /\ [][NextReplace]_vars

\* C32: when save_to_mongodb has completed, the collection holds exactly one
\* document of the platform, the one just computed, whatever it held before
\* and in every run.
C32_OneFreshNetworkAfterSave ==
    net.pc = "saved" =>
        /\ Cardinality(OfPlatform(net.creator_networks, "instagram")) = 1
        /\ \A i \in OfPlatform(net.creator_networks, "instagram") :
              net.creator_networks[i] = net.pending
        /\ DeleteMany(net.creator_networks, "instagram") = DeleteMany(net.before, "instagram")

\* C32 witness: a second run has saved a network with an edge over the
\* network that the first run saved, which was a different one, next to a
\* document of another platform.
C32_Witness ==
    /\ net.pc = "saved"
    /\ net.runs = 1
    /\ Cardinality(OfPlatform(net.before, "instagram")) = 1
    /\ \A i \in OfPlatform(net.before, "instagram") :
          net.before[i].creator_count >= 1 /\ net.before[i] # net.pending
    /\ Cardinality(OfPlatform(net.creator_networks, "xiaohongshu")) = 1
    /\ net.pending.edge_count = 1

\* The collection holds a network of the platform.
HasNetwork(col) == OfPlatform(col, "instagram") # {}

\* C33: the new network is inserted before the prior one is deleted: between
\* the two store operations of the replace step, a platform that had a
\* network when the step began still has one.
C33_NoWindowWithoutNetwork ==
    (net.pc = "insert" /\ HasNetwork(net.before)) => HasNetwork(net.creator_networks)

\* C40: when the insert of the new network raises, the network the
\* platform had before the build is still in the collection.
C40_FailedSaveKeepsPriorNetwork ==
    (net.pc = "failed" /\ HasNetwork(net.before)) =>
        \A i \in OfPlatform(net.before, "instagram") :
            \E j \in OfPlatform(net.creator_networks, "instagram") :
                net.creator_networks[j] = net.before[i]

(***************************************************************************)
(* SpecConcurrent: two fetch jobs call _save_raw at the same time on a     *)
(* collection with a unique index on file_hash; insert_one and find_one    *)
(* are the atomic steps                                                    *)
(***************************************************************************)
Jobs == {1, 2}

\* What the jobs save: a page payload, with the source file it was fetched
\* under or without one.
JobSaves ==
    [payload : PagePayloads,
     source_file : {NoFile, FileName(Stem("posts"), 1, 0)}]

\* The except block of _save_raw with the handler re-raising at once.
HandleInsertError_reraises(col, fh) == [pc |-> "raised", id |-> 0]

\* The except block of _save_raw after a DuplicateKeyError: the _id of the
\* document find_one returns, or the exception again when there is none.
HandleInsertError(col, fh) ==
    IF FindByHash(col, fh) # 0
    THEN [pc |-> "returned", id |-> FindByHash(col, fh)]
    ELSE [pc |-> "raised", id |-> 0]

\* raw_col.insert_one(doc) of job j: the document is stored and its id
\* returned, or the index refuses it and the except block is entered.
JobInsert(j) ==
    /\ call.fn = "save_raw_jobs"
    /\ call.ret[j].pc = "insert"
    /\ LET fh == FileHash(call.arg[j].payload, call.arg[j].source_file)
           doc == [endpoint |-> Endpoint("posts"), user_id |-> 1, raw |-> call.arg[j].payload,
                   source_file |-> call.arg[j].source_file, file_hash |-> fh,
                   fetched_at |-> now]
       IN  IF FindByHash(raw_col, fh) = 0
           THEN /\ raw_col' = Append(raw_col, doc)
                /\ call' = [call EXCEPT !.ret[j] = [pc |-> "returned", id |-> Len(raw_col) + 1]]
           ELSE /\ raw_col' = raw_col
                /\ call' = [call EXCEPT !.ret[j] = [pc |-> "except", id |-> 0]]
    /\ UNCHANGED <<fetchVars, http, http_log, local_fs, now, save_ret, normVars, net, adapterVars>>

\* The except block of job j.
JobHandleError(j) ==
    /\ call.fn = "save_raw_jobs"
    /\ call.ret[j].pc = "except"
    /\ call' = [call EXCEPT !.ret[j] =
                   HandleInsertError(raw_col,
                                     FileHash(call.arg[j].payload, call.arg[j].source_file))]
    /\ UNCHANGED <<fetchVars, http, http_log, storeVars, normVars, net, adapterVars>>

InitConcurrent ==
    /\ FetchIdle
    /\ http = HttpIdle
    /\ http_log = <<>>
    /\ StoreIdle
    /\ NormIdle
    /\ AdapterIdle
    /\ NetIdle
    /\ \E saves \in [Jobs -> JobSaves] :
          call = [fn |-> "save_raw_jobs", arg |-> saves,
                  ret |-> [j \in Jobs |-> [pc |-> "insert", id |-> 0]]]

NextConcurrent == \E j \in Jobs : JobInsert(j) \/ JobHandleError(j)

SpecConcurrent == InitConcurrent /\ [][NextConcurrent]_vars

JobHash(j) == FileHash(call.arg[j].payload, call.arg[j].source_file)
WithHash(fh) == {i \in 1..Len(raw_col) : raw_col[i].file_hash = fh}

C35_BackoffDoubles ==
    /\ \A k \in 1..Len(http.sleeps) : http.sleeps[k] = 2 ^ (k - 1)
    /\ http.state = "running" => Len(http.sleeps) = http.attempt
    /\ (http.state \in {"returned", "raised"} /\ http.attempt > 0)
          => Len(http.sleeps) = http.attempt - 1
    /\ http.attempt = 0 => http.sleeps = <<>>

\* C35 witness: a call with four attempts that met a network exception, a
\* 429 and a 503 before a 500 on its last attempt slept 1, 2 and 4 seconds.
C35_Witness ==
    /\ http.state = "returned"
    /\ http.max_retries = 4
    /\ http_log = <<RequestException, 429, 503, 500>>
    /\ http.sleeps = <<1, 2, 4>>

(***************************************************************************)
(* Properties of Spec: the continuation tokens of a session                *)
(***************************************************************************)
\* The positions of the requests of a session that carried a max_id.
TokenRequests(kind) ==
    {i \in 1..Len(requests) : requests[i].kind = kind /\ requests[i].max_id # NoValue}

\* The loop of the session is running or has just been left.
InSession(kind) == pc \in {kind, Broken(kind)}

\* C36: within a session no cursor is sent twice as max_id, and every max_id
\* sent is in the session's seen_cursors.
C36_TokensDistinctAndSeen ==
    \A kind \in Kinds :
        /\ \A i, j \in TokenRequests(kind) :
              i # j => requests[i].max_id # requests[j].max_id
        /\ InSession(kind) =>
              \A i \in TokenRequests(kind) : requests[i].max_id \in seen_cursors

\* C36 witness: a posts session of three requests that sent two different
\* cursors, both in seen_cursors, after a first request without one.
C36_Witness ==
    /\ InSession("posts")
    /\ Cardinality(TokenRequests("posts")) = 2
    /\ {requests[i].max_id : i \in TokenRequests("posts")} = seen_cursors
    /\ Cardinality(seen_cursors) = 2
    /\ requests[1].max_id = NoValue

(***************************************************************************)
(* Properties of SpecSave: payloads that differ from every stored one      *)
(***************************************************************************)
\* The payload is held by no record of the store.
Unstored(col, data) == \A i \in 1..Len(col) : col[i].raw # data

\* C37: a page payload that differs from the payload of every stored record
\* is stored in a new record when it is saved, whatever second the clock
\* shows, also the second of an earlier save of the same page.
C37_DifferingPayloadIsStored ==
    \A kind \in Kinds, data \in PagePayloads :
        Unstored(raw_col, data) =>
            LET saved == SaveRaw(raw_col, data, Endpoint(kind), 1,
                                 FileName(Stem(kind), 1, now), now)
            IN  /\ saved.inserted
                /\ saved.id = Len(raw_col) + 1
                /\ saved.col[saved.id].raw = data

(***************************************************************************)
(* Properties of Spec: what a failed page call leaves behind               *)
(***************************************************************************)
\* The failed entries of a page list, the `_error` records of the store and
\* the `_error` entries of local_files, for one kind of page.
FailedEntries(kind) ==
    {k \in 1..Len(PageList(kind)) : PageList(kind)[k].error # ""}
ErrorRecords(kind) ==
    {i \in 1..Len(raw_col) : raw_col[i].endpoint = ErrorEndpoint(kind)}
ErrorFiles(kind) ==
    {i \in 1..Len(results.local_files) :
        results.local_files[i].endpoint = ErrorEndpoint(kind)}

\* C38: each failed page call leaves exactly one error entry in the page
\* list and exactly one error record: an `_error` record of the store in
\* direct mode, an `_error` entry of local_files in local-first mode.
C38_OneErrorRecordPerFailedPage ==
    \A kind \in Kinds :
        /\ Cardinality(FailedEntries(kind)) <= 1
        /\ IF args.store_local_first
           THEN Cardinality(ErrorFiles(kind)) = Cardinality(FailedEntries(kind))
           ELSE Cardinality(ErrorRecords(kind)) = Cardinality(FailedEntries(kind))

(***************************************************************************)
(* Properties of Spec: the user id of the content-page requests            *)
(***************************************************************************)
\* C39: every posts or reels request carries a resolved user id; when
\* _extract_user_id finds none in the identity-info payload, no content page
\* is requested.
C39_NoPageRequestWithoutUserId ==
    /\ \A i \in 1..Len(requests) : requests[i].user_id # NoValue
    /\ (pc \notin {"idle", "raised"} /\ user_id = NoValue) => requests = <<>>

====
